---- MODULE Spec2Model ----
(***************************************************************************)
(* Communication-channel layer of security-compliance-cli.                 *)
(*                                                                         *)
(* Text is modelled as a sequence of characters (one-character strings).   *)
(* The serial port is a byte FIFO `rx` filled by the target and drained by *)
(* the channel's reads, and a log `tx` of what the channel wrote.          *)
(***************************************************************************)
EXTENDS Integers, Sequences, FiniteSets, TLC

(***************************************************************************)
(* Characters                                                              *)
(***************************************************************************)
LF  == "\n"
CR  == "\r"
SP  == " "
ESC == "ESC"

\* Option<T>: None is the empty tuple, Some(v) the one-element tuple
None == <<>>
Some(v) == <<v>>
Unwrap(o) == o[1]

IsWhitespace(ch) == ch \in {SP, LF, CR, "\t"}

IsAsciiAlphabetic(ch) == ch \in {"c", "h", "m", "L", "P", "u", "p"}

(***************************************************************************)
(* str helpers of the Rust standard library, as the source uses them       *)
(***************************************************************************)
MatchesAt(s, pat, i) ==
    /\ i >= 1
    /\ i + Len(pat) - 1 <= Len(s)
    /\ \A k \in 1..Len(pat) : s[i + k - 1] = pat[k]

\* str::contains
Contains(s, pat) == \E i \in 1..(Len(s) - Len(pat) + 1) : MatchesAt(s, pat, i)

\* str::ends_with
EndsWith(s, pat) == MatchesAt(s, pat, Len(s) - Len(pat) + 1)

\* str::rfind: Some(byte offset, 0-based) of the last match, or None
RFind(s, pat) ==
    LET hits == {i \in 1..(Len(s) - Len(pat) + 1) : MatchesAt(s, pat, i)}
    IN  IF hits = {} THEN None
        ELSE Some((CHOOSE i \in hits : \A j \in hits : j <= i) - 1)

\* String::truncate
Truncate(s, pos) == SubSeq(s, 1, pos)

\* str::trim
Trim(s) ==
    LET keep == {i \in 1..Len(s) : ~IsWhitespace(s[i])}
    IN  IF keep = {} THEN <<>>
        ELSE SubSeq(s, CHOOSE i \in keep : \A j \in keep : i <= j,
                       CHOOSE i \in keep : \A j \in keep : j <= i)

\* str::lines: split after every "\n", drop the "\n" and a "\r" before it;
\* the final line needs no terminator and keeps a bare trailing "\r"
RECURSIVE Lines(_)
Lines(s) ==
    LET nl == {i \in 1..Len(s) : s[i] = LF}
    IN  IF s = <<>> THEN <<>>
        ELSE IF nl = {} THEN <<s>>
        ELSE LET i    == CHOOSE k \in nl : \A j \in nl : k <= j
                 raw  == SubSeq(s, 1, i - 1)
                 line == IF raw # <<>> /\ raw[Len(raw)] = CR
                         THEN SubSeq(raw, 1, Len(raw) - 1) ELSE raw
             IN  <<line>> \o Lines(SubSeq(s, i + 1, Len(s)))

\* [&str]::join("\n")
RECURSIVE JoinLines(_)
JoinLines(ls) ==
    IF ls = <<>> THEN <<>>
    ELSE IF Len(ls) = 1 THEN ls[1]
    ELSE ls[1] \o <<LF>> \o JoinLines(Tail(ls))

(***************************************************************************)
(* strip_ansi_codes                                                        *)
(***************************************************************************)
\* the inner `for next_ch in chars.by_ref()`: consume up to and including
\* the first ASCII letter (or everything, when there is none)
RECURSIVE SkipSequence(_)
SkipSequence(s) ==
    IF s = <<>> THEN <<>>
    ELSE IF IsAsciiAlphabetic(Head(s)) THEN Tail(s)
    ELSE SkipSequence(Tail(s))

RECURSIVE StripKeepingLoneEsc(_)
\* every character but the ESC '[' sequences is pushed to the result
StripKeepingLoneEsc(text) ==
    IF text = <<>> THEN <<>>
    ELSE IF Head(text) = ESC /\ Len(text) >= 2 /\ text[2] = "["
         THEN StripKeepingLoneEsc(SkipSequence(SubSeq(text, 3, Len(text))))
         ELSE <<Head(text)>> \o StripKeepingLoneEsc(Tail(text))

RECURSIVE strip_ansi_codes(_)
strip_ansi_codes(text) ==
    IF text = <<>> THEN <<>>
    ELSE IF Head(text) = ESC
         THEN IF Len(text) >= 2 /\ text[2] = "["
              THEN strip_ansi_codes(SkipSequence(SubSeq(text, 3, Len(text))))
              ELSE strip_ansi_codes(Tail(text))
         ELSE <<Head(text)>> \o strip_ansi_codes(Tail(text))

(***************************************************************************)
(* SerialChannel::execute_command_with_timeout: one pass of the read loop  *)
(* over the stripped text of the whole buffer                              *)
(***************************************************************************)
\* the echo search (start_index, 0-based): the index after the first line
\* whose trimmed text contains the trimmed command, 0 when there is none
EchoStartIndex(lines, cmd) ==
    LET hits == {i \in 1..Len(lines) :
                    \/ Contains(Trim(lines[i]), Trim(cmd))
                    \/ EndsWith(Trim(lines[i]), Trim(cmd))}
    IN  IF hits = {} THEN 0 ELSE CHOOSE i \in hits : \A j \in hits : i <= j

\* branch `!command_echo_seen`; `skip` is the `continue` that bypasses the
\* completion test
SkipEcho(clean_text, cmd, out) ==
    IF LF \in {clean_text[i] : i \in 1..Len(clean_text)}
    THEN LET lines       == Lines(clean_text)
             start_index == EchoStartIndex(lines, cmd)
         IN  IF start_index < Len(lines)
             THEN [stdout |-> JoinLines(SubSeq(lines, start_index + 1, Len(lines))),
                   command_echo_seen |-> TRUE, skip |-> FALSE]
             ELSE [stdout |-> out, command_echo_seen |-> FALSE, skip |-> TRUE]
    ELSE [stdout |-> out, command_echo_seen |-> FALSE, skip |-> FALSE]

\* branch `command_echo_seen`: re-anchor on the last line of stdout
Accumulate(clean_text, out) ==
    LET lines  == Lines(clean_text)
        olines == Lines(out)
    IN  IF olines # <<>>
        THEN LET last_stdout_line == olines[Len(olines)]
                 hits == {i \in 1..Len(lines) : Trim(lines[i]) = Trim(last_stdout_line)}
             IN  IF hits # {}
                 THEN LET pos == CHOOSE i \in hits : \A j \in hits : i <= j
                      IN  IF pos < Len(lines)
                          THEN out \o <<LF>> \o JoinLines(SubSeq(lines, pos + 1, Len(lines)))
                          ELSE out
                 ELSE clean_text
        ELSE clean_text

\* a completion test that looks at the end of the buffer only
HasPromptAtEnd(clean_text, shell_prompt) ==
    \/ EndsWith(clean_text, shell_prompt)
    \/ EndsWith(clean_text, <<"$", SP>>)
    \/ EndsWith(clean_text, <<"#", SP>>)

\* the completion test on the whole stripped buffer
HasPrompt(clean_text, shell_prompt) ==
    \/ EndsWith(clean_text, shell_prompt)
    \/ Contains(clean_text, shell_prompt)
    \/ EndsWith(clean_text, <<"$", SP>>)
    \/ EndsWith(clean_text, <<"#", SP>>)
    \/ Contains(clean_text, <<"$", SP>>)
    \/ Contains(clean_text, <<"#", SP>>)

\* str::find: Some(byte offset, 0-based) of the first match, or None
Find(s, pat) ==
    LET hits == {i \in 1..(Len(s) - Len(pat) + 1) : MatchesAt(s, pat, i)}
    IN  IF hits = {} THEN None
        ELSE Some((CHOOSE i \in hits : \A j \in hits : i <= j) - 1)

\* the prompt removal with `find` in the place of `rfind`
RemovePromptAtFirst(out, shell_prompt) ==
    LET p1 == Find(out, <<"$", SP>>)
        p2 == Find(out, <<"#", SP>>)
        p3 == Find(out, shell_prompt)
        cut == IF p1 # None THEN Truncate(out, Unwrap(p1))
               ELSE IF p2 # None THEN Truncate(out, Unwrap(p2))
               ELSE IF p3 # None THEN Truncate(out, Unwrap(p3))
               ELSE out
    IN  Trim(cut)

\* `for prompt_pattern in ["$ ", "# ", &shell_prompt]`: truncate at the last
\* occurrence of the first pattern that occurs, then trim
RemovePrompt(out, shell_prompt) ==
    LET p1 == RFind(out, <<"$", SP>>)
        p2 == RFind(out, <<"#", SP>>)
        p3 == RFind(out, shell_prompt)
        cut == IF p1 # None THEN Truncate(out, Unwrap(p1))
               ELSE IF p2 # None THEN Truncate(out, Unwrap(p2))
               ELSE IF p3 # None THEN Truncate(out, Unwrap(p3))
               ELSE out
    IN  Trim(cut)

\* the `Ok(n) if n > 0` arm: the new (stdout, command_echo_seen) and whether
\* the loop breaks
ReadLoopStep(buf, cmd, shell_prompt, out, seen) ==
    LET clean_text == strip_ansi_codes(buf)
        upd == IF ~seen THEN SkipEcho(clean_text, cmd, out)
               ELSE [stdout |-> Accumulate(clean_text, out),
                     command_echo_seen |-> TRUE, skip |-> FALSE]
    IN  IF ~upd.skip /\ HasPrompt(clean_text, shell_prompt)
        THEN [stdout |-> RemovePrompt(upd.stdout, shell_prompt),
              command_echo_seen |-> upd.command_echo_seen, done |-> TRUE]
        ELSE [stdout |-> upd.stdout,
              command_echo_seen |-> upd.command_echo_seen, done |-> FALSE]

(***************************************************************************)
(* Bounds of the model                                                     *)
(***************************************************************************)
\* API calls made on the channel in one run
MaxCalls == 3
\* times the target starts saying something
MaxSpeak == 2

(***************************************************************************)
(* Program constants (seconds)                                             *)
(***************************************************************************)
DefaultTimeoutSecs  == 30
SshDefaultTimeoutSecs == 60
ShellCheckSecs      == 3
LoginPromptSecs     == 5
PasswordPromptSecs  == 10
ShellPromptSecs     == 10

(***************************************************************************)
(* State                                                                   *)
(***************************************************************************)
VARIABLES
    config,             \* the ChannelConfig given to from_channel_config:
                        \* its variant and the Option fields of Serial
    port,               \* TRUE iff self.port is Some
    connected,          \* self.connected
    logged_in,          \* self.logged_in
    pc,                 \* position inside the call in progress, "idle" if none
    op,                 \* the trait method in progress: "connect" or "exec"
    command,            \* parameter `command`
    timeout_duration,   \* parameter `timeout_duration`
    line_ending,        \* loop index of the wake-up burst (1..3)
    buffer,             \* local `buffer` of wait_for_prompt / of the read loop
    stdout,             \* local `stdout` of the read loop
    command_echo_seen,  \* local `command_echo_seen`
    elapsed,            \* seconds since the running tokio timeout() started
    rx,                 \* bytes the target sent that no read has taken yet
    script,             \* bytes of a fixed response the target has yet to send
    transcript,         \* the fixed response as a whole (empty if there is none)
    result,             \* what the last finished call returned
    tx,                 \* log of the writes to the port by the running/last call
    waits,              \* prompt waits of the running/last call, with outcomes
    login,              \* how login_if_needed ended in the running/last call
    reads,              \* port.read calls that returned data in the running/last call
    calls,              \* API calls made
    spoken,             \* times the target spoke
    transport,          \* the implementation behind the channel trait
    lifecycle,          \* "unbuilt" before from_channel_config, "none"
                        \* once it returned Err; of a channel "new", or the
                        \* last of connect() called, disconnect() returned Ok
    ssh_key_path,       \* SshChannelConfig.ssh_key_path
    key_files,          \* the private key files that exist on disk
    session,            \* SshChannel.session
    ssh_log,            \* calls into ssh2, the network and the file system
                        \* made by the running/last call, with outcomes
    remote,             \* what the remote end did in the last command
    raw_text,           \* the text handed to strip_ansi_codes
    stripped_text,      \* what strip_ansi_codes returned
    test_names,         \* parameter `test_names` of filter_tests_for_machine
    machine_config,     \* parameter `machine_config`: None, or Some of the
                        \* machine's hardware_features
    filtered_tests,     \* what filter_tests_for_machine returned
    key_install         \* the commands install_public_key has run: their
                        \* exit status on the target and what the channel
                        \* returned for them

chan   == <<config, port, connected, logged_in>>
frame  == <<pc, op, command, timeout_duration, line_ending, buffer, stdout,
            command_echo_seen, elapsed>>
wire   == <<rx, script, transcript, spoken>>
ghost  == <<tx, waits, login, reads>>
ssh    == <<ssh_key_path, key_files, session, ssh_log, remote>>
pure   == <<raw_text, stripped_text, test_names, machine_config,
            filtered_tests>>
others == <<transport, lifecycle, ssh, pure, key_install>>
vars   == <<config, port, connected, logged_in, pc, op, command,
            timeout_duration, line_ending, buffer, stdout, command_echo_seen,
            elapsed, rx, script, transcript, result, tx, waits, login, reads,
            calls, spoken, transport, lifecycle, ssh_key_path, key_files,
            session, ssh_log, remote, raw_text, stripped_text, test_names,
            machine_config, filtered_tests, key_install>>

(***************************************************************************)
(* Values                                                                  *)
(***************************************************************************)
Username       == <<"u">>
Password       == <<"p">>
LoginPrompt    == <<"L">>
PasswordPrompt == <<"P">>
DollarPrompt   == <<"$", SP>>

Commands == {<<"c">>}

\* the values callers pass as timeout_duration
CallerTimeouts == {1, DefaultTimeoutSecs}

Configs ==
    [channel_type    : {"serial"},
     login_prompt    : {None, Some(LoginPrompt)},
     password_prompt : {None, Some(PasswordPrompt)},
     shell_prompt    : {None, Some(DollarPrompt)},
     username        : {None, Some(Username)},
     password        : {None, Some(Password)}]

\* ChannelConfig::Ssh: none of the fields of Serial (ssh_key_path is a
\* variable of its own)
NoSerialConfig ==
    [channel_type |-> "ssh",
     login_prompt |-> None, password_prompt |-> None, shell_prompt |-> None,
     username |-> None, password |-> None]

\* what the target may say: the login and password prompts, a command's echo
\* with its output and the shell prompt, output without a prompt
Says ==
    {LoginPrompt, PasswordPrompt,
     <<"c", LF, "h", LF, "$", SP>>,
     <<"h", LF>>}

\* Result<()> and Result<CommandOutput>
OkUnit == [ok |-> TRUE, kind |-> "unit", error |-> "", msg |-> "",
           stdout |-> <<>>, stderr |-> <<>>, exit_code |-> 0]
Err(e, m) == [ok |-> FALSE, kind |-> "error", error |-> e, msg |-> m,
              stdout |-> <<>>, stderr |-> <<>>, exit_code |-> 0]
\* a CommandOutput whose exit code is guessed from the output
CommandOutputGuessed(out) ==
    [ok |-> TRUE, kind |-> "output", error |-> "", msg |-> "",
     stdout |-> out, stderr |-> <<>>,
     exit_code |-> IF out = <<>> THEN 0 ELSE 1]

\* the CommandOutput literal of execute_command_with_timeout
CommandOutput(out) ==
    [ok |-> TRUE, kind |-> "output", error |-> "", msg |-> "",
     stdout |-> out, stderr |-> <<>>, exit_code |-> 0]
NoResult == [ok |-> TRUE, kind |-> "none", error |-> "", msg |-> "",
             stdout |-> <<>>, stderr |-> <<>>, exit_code |-> 0]
\* Result<Self> of from_channel_config: Ok(Self { .. })
OkSelf == [ok |-> TRUE, kind |-> "channel", error |-> "", msg |-> "",
           stdout |-> <<>>, stderr |-> <<>>, exit_code |-> 0]

\* the remote end of an SSH command before any command has run
NoRemote == [fails |-> 0, stdout |-> <<>>, stderr |-> <<>>,
             exit_code |-> 0, duration |-> 0]

\* the writes of the wake-up burst, in order
Burst == <<"ctrl_c", "crlf", "lf", "cr">>

\* [b"\r\n", b"\n", b"\r"]
LineEndings == <<"crlf", "lf", "cr">>

WaitPcs == {"wait_shell_1", "wait_login", "wait_password", "wait_shell_2"}

\* the prompt a wait_for_prompt call looks for
ExpectedPrompt(p) ==
    CASE p = "wait_shell_1"  -> Unwrap(config.shell_prompt)
      [] p = "wait_login"    -> Unwrap(config.login_prompt)
      [] p = "wait_password" -> Unwrap(config.password_prompt)
      [] p = "wait_shell_2"  -> Unwrap(config.shell_prompt)

\* the read loop raced against the 30 s default instead of the parameter
DeadlineDefault ==
    CASE pc = "wait_shell_1"  -> ShellCheckSecs
      [] pc = "wait_login"    -> LoginPromptSecs
      [] pc = "wait_password" -> PasswordPromptSecs
      [] pc = "wait_shell_2"  -> ShellPromptSecs
      [] pc = "read_output"   -> DefaultTimeoutSecs
      [] OTHER                -> 0

\* the Duration handed to tokio::time::timeout at each timed wait
Deadline ==
    CASE pc = "wait_shell_1"  -> ShellCheckSecs
      [] pc = "wait_login"    -> LoginPromptSecs
      [] pc = "wait_password" -> PasswordPromptSecs
      [] pc = "wait_shell_2"  -> ShellPromptSecs
      [] pc = "read_output"   -> timeout_duration
      [] OTHER                -> 0

(***************************************************************************)
(* Initial state: SerialChannel::new                                       *)
(***************************************************************************)
\* no free function has been called
NoPureCall ==
    /\ raw_text = <<>>
    /\ stripped_text = <<>>
    /\ test_names = <<>>
    /\ machine_config = None
    /\ filtered_tests = <<>>

\* install_public_key has not been called
NoInstall == key_install = <<>>

\* no method of the channel has been called
NoCalls ==
    /\ port = FALSE
    /\ connected = FALSE
    /\ logged_in = FALSE
    /\ pc = "idle"
    /\ op = "none"
    /\ command = <<>>
    /\ timeout_duration = 0
    /\ line_ending = 1
    /\ buffer = <<>>
    /\ stdout = <<>>
    /\ command_echo_seen = FALSE
    /\ elapsed = 0
    /\ rx = <<>>
    /\ script = <<>>
    /\ transcript = <<>>
    /\ result = NoResult
    /\ tx = <<>>
    /\ waits = <<>>
    /\ login = "none"
    /\ reads = 0
    /\ calls = 0
    /\ spoken = 0
    /\ session = None
    /\ ssh_log = <<>>
    /\ remote = NoRemote

\* a channel that has made no call yet
New ==
    /\ lifecycle = "new"
    /\ NoCalls
    /\ NoPureCall
    /\ NoInstall

Init ==
    /\ transport = "serial"
    /\ config \in Configs
    /\ ssh_key_path = None
    /\ key_files = {}
    /\ New

(***************************************************************************)
(* Control flow of login_if_needed between its suspension points           *)
(***************************************************************************)
\* the final stage: wait for the shell prompt if one is configured
FinalStage ==
    IF config.shell_prompt # None THEN "wait_shell_2" ELSE "ready"

\* after the username was sent
AfterUsername ==
    IF config.password_prompt # None /\ config.password # None
    THEN "wait_password" ELSE FinalStage

\* after the early shell-prompt check did not find the prompt
AfterShellCheck ==
    IF config.login_prompt # None /\ config.username # None
    THEN "wait_login" ELSE FinalStage

\* the `username.is_none()` check left out
AfterBurstNoCheck ==
    IF config.shell_prompt # None THEN "wait_shell_1" ELSE AfterShellCheck

\* after the wake-up burst
AfterBurst ==
    IF config.username = None THEN "ready"
    ELSE IF config.shell_prompt # None THEN "wait_shell_1"
    ELSE AfterShellCheck

\* the locals of a call are dropped when it returns
DropLocals ==
    /\ buffer' = <<>>
    /\ stdout' = <<>>
    /\ command_echo_seen' = FALSE
    /\ line_ending' = 1

\* a trait method returns r to its caller
Return(r) ==
    /\ pc' = "idle"
    /\ result' = r
    /\ DropLocals

\* login_if_needed returns Ok(()) to connect or to execute_command_with_timeout
LoginReturnsOk ==
    /\ login' = "ok"
    /\ IF op = "connect"
       THEN Return(OkUnit)
       ELSE /\ pc' = "send_command"
            /\ result' = result
            /\ DropLocals

\* execute_command_with_timeout drops the error of login_if_needed and
\* goes on to send the command
LoginErrIgnored(e, m) ==
    /\ login' = "err"
    /\ IF op = "connect"
       THEN Return(Err(e, m))
       ELSE /\ pc' = "send_command"
            /\ result' = result
            /\ DropLocals

\* login_if_needed returns Err(e); both callers pass it on with `?`
LoginReturnsErr(e, m) ==
    /\ login' = "err"
    /\ Return(Err(e, m))

\* login_if_needed goes on to the stage `label`
Goto(label) ==
    IF label = "ready"
    THEN /\ logged_in' = TRUE
         /\ LoginReturnsOk
    ELSE /\ pc' = label
         /\ buffer' = <<>>
         /\ UNCHANGED <<logged_in, result, login, stdout, command_echo_seen,
                        line_ending>>

(***************************************************************************)
(* SerialChannel: connect, disconnect                                      *)
(***************************************************************************)
\* connect(): open the port, then login_if_needed() up to its first write
Connect ==
    /\ transport = "serial"
    /\ pc = "idle"
    /\ calls < MaxCalls
    /\ calls' = calls + 1
    /\ op' = "connect"
    /\ lifecycle' = "connect"
    /\ reads' = 0
    /\ tx' = <<>>
    /\ waits' = <<>>
    /\ \E opened \in BOOLEAN :
         IF ~opened
         THEN /\ Return(Err("SerialConnection", "open"))
              /\ login' = "none"
              /\ UNCHANGED <<port, connected, logged_in>>
         ELSE /\ port' = TRUE
              /\ connected' = TRUE
              /\ UNCHANGED logged_in
              /\ IF logged_in
                 THEN /\ login' = "skipped"
                      /\ Return(OkUnit)
                 ELSE /\ login' = "running"
                      /\ pc' = "ctrl_c"
                      /\ result' = NoResult
                      /\ DropLocals
    /\ UNCHANGED <<transport, pure, key_install, ssh, config, command, timeout_duration,
                   elapsed,
                   wire>>

\* disconnect() that drops the port and forgets to clear connected
DisconnectStaysConnected ==
    /\ transport = "serial"
    /\ pc = "idle"
    /\ calls < MaxCalls
    /\ calls' = calls + 1
    /\ op' = "disconnect"
    /\ lifecycle' = "disconnect"
    /\ reads' = 0
    /\ port' = FALSE
    /\ logged_in' = FALSE
    /\ rx' = <<>>
    /\ login' = "none"
    /\ tx' = <<>>
    /\ waits' = <<>>
    /\ Return(OkUnit)
    /\ UNCHANGED <<transport, pure, key_install, ssh, config, connected, command,
                   timeout_duration, elapsed, script, transcript, spoken>>

\* disconnect() that forgets to clear logged_in
DisconnectStaysLoggedIn ==
    /\ transport = "serial"
    /\ pc = "idle"
    /\ calls < MaxCalls
    /\ calls' = calls + 1
    /\ op' = "disconnect"
    /\ lifecycle' = "disconnect"
    /\ reads' = 0
    /\ port' = FALSE
    /\ connected' = FALSE
    /\ rx' = <<>>
    /\ login' = "none"
    /\ tx' = <<>>
    /\ waits' = <<>>
    /\ Return(OkUnit)
    /\ UNCHANGED <<transport, pure, key_install, ssh, config, logged_in, command,
                   timeout_duration, elapsed, script, transcript, spoken>>

\* disconnect()
Disconnect ==
    /\ transport = "serial"
    /\ pc = "idle"
    /\ calls < MaxCalls
    /\ calls' = calls + 1
    /\ op' = "disconnect"
    /\ lifecycle' = "disconnect"
    /\ reads' = 0
    /\ port' = FALSE
    /\ connected' = FALSE
    /\ logged_in' = FALSE
    /\ rx' = <<>>
    /\ login' = "none"
    /\ tx' = <<>>
    /\ waits' = <<>>
    /\ Return(OkUnit)
    /\ UNCHANGED <<transport, pure, key_install, ssh, config, command, timeout_duration,
                   elapsed,
                   script, transcript, spoken>>

(***************************************************************************)
(* SerialChannel::login_if_needed                                          *)
(***************************************************************************)
\* port.write_all(&[3])
SendCtrlC ==
    /\ transport = "serial"
    /\ pc = "ctrl_c"
    /\ \E written \in BOOLEAN :
         IF written
         THEN /\ tx' = Append(tx, "ctrl_c")
              /\ pc' = "line_ending"
              /\ line_ending' = 1
              /\ UNCHANGED <<result, login, buffer, stdout, command_echo_seen>>
         ELSE /\ LoginReturnsErr("SerialConnection", "write")
              /\ UNCHANGED tx
    /\ UNCHANGED <<others, chan, op, command, timeout_duration, elapsed, wire,
                   waits, reads, calls>>

\* port.write_all(line_ending) and port.flush()
SendLineEnding ==
    /\ transport = "serial"
    /\ pc = "line_ending"
    /\ \E written \in BOOLEAN :
         IF written
         THEN /\ tx' = Append(tx, LineEndings[line_ending])
              /\ pc' = "try_read"
              /\ UNCHANGED <<result, login, buffer, stdout, command_echo_seen,
                             line_ending>>
         ELSE /\ LoginReturnsErr("SerialConnection", "write")
              /\ UNCHANGED tx
    /\ UNCHANGED <<others, chan, op, command, timeout_duration, elapsed, wire,
                   waits, reads, calls>>

\* the burst without the check of what the read returned
TryReadNoCheck ==
    /\ transport = "serial"
    /\ pc = "try_read"
    /\ \E readable \in BOOLEAN :
         LET got == readable /\ rx # <<>>
         IN  /\ rx' = IF got THEN <<>> ELSE rx
             /\ IF line_ending < 3
                THEN /\ line_ending' = line_ending + 1
                     /\ pc' = "line_ending"
                     /\ UNCHANGED <<logged_in, result, login, buffer, stdout,
                                    command_echo_seen>>
                ELSE Goto(AfterBurst)
    /\ elapsed' = 0
    /\ UNCHANGED <<others, config, port, connected, op, command,
                   timeout_duration, script, transcript, spoken, tx, waits,
                   reads, calls>>

\* port.try_read after the 500 ms pause; after the third line ending the
\* function runs on to its next suspension point
TryRead ==
    /\ transport = "serial"
    /\ pc = "try_read"
    /\ \E readable \in BOOLEAN :
         LET got            == readable /\ rx # <<>>
             clean_response == strip_ansi_codes(rx)
         IN  /\ rx' = IF got THEN <<>> ELSE rx
             /\ IF got /\ (Contains(clean_response, <<"$">>)
                           \/ Contains(clean_response, <<"#">>))
                THEN /\ logged_in' = TRUE
                     /\ LoginReturnsOk
                ELSE IF line_ending < 3
                THEN /\ line_ending' = line_ending + 1
                     /\ pc' = "line_ending"
                     /\ UNCHANGED <<logged_in, result, login, buffer, stdout,
                                    command_echo_seen>>
                ELSE Goto(AfterBurst)
    /\ elapsed' = 0
    /\ UNCHANGED <<others, config, port, connected, op, command,
                   timeout_duration, script, transcript, spoken, tx, waits,
                   reads, calls>>

\* `match self.wait_for_prompt(&shell_prompt, 3)`: the early shell check
AfterShellCheckWait(outcome) ==
    IF outcome = "found" THEN Goto("ready") ELSE Goto(AfterShellCheck)

\* every failure of the login-prompt wait fails the login
AfterLoginWaitStrict(outcome) ==
    IF outcome = "found"
    THEN /\ pc' = "send_username"
         /\ DropLocals
         /\ UNCHANGED <<logged_in, result, login>>
    ELSE /\ LoginReturnsErr("SerialConnection", outcome)
         /\ UNCHANGED logged_in

\* `match self.wait_for_prompt(&login_prompt, 5)`
AfterLoginWait(outcome) ==
    IF outcome = "found"
    THEN /\ pc' = "send_username"
         /\ DropLocals
         /\ UNCHANGED <<logged_in, result, login>>
    ELSE Goto("ready")

\* the password-prompt wait forgiven like the login-prompt wait
AfterPasswordWaitForgiving(outcome) ==
    IF outcome = "found"
    THEN /\ pc' = "send_password"
         /\ DropLocals
         /\ UNCHANGED <<logged_in, result, login>>
    ELSE Goto("ready")

\* `self.wait_for_prompt(&password_prompt, 10).await?`
AfterPasswordWait(outcome) ==
    IF outcome = "found"
    THEN /\ pc' = "send_password"
         /\ DropLocals
         /\ UNCHANGED <<logged_in, result, login>>
    ELSE /\ LoginReturnsErr("SerialConnection",
                            IF outcome = "timeout" THEN "timeout" ELSE "read")
         /\ UNCHANGED logged_in

\* every failure of the final shell-prompt wait fails the login
AfterShellWaitStrict(outcome) ==
    IF outcome = "found" THEN Goto("ready")
    ELSE /\ LoginReturnsErr("SerialConnection", outcome)
         /\ UNCHANGED logged_in

\* `match self.wait_for_prompt(&shell_prompt, 10)`: Ok and Err alike fall
\* through to `self.logged_in = true`
AfterShellWait(outcome) == Goto("ready")

\* what login_if_needed does with the outcome of a wait_for_prompt call
AfterWait(outcome) ==
    /\ waits' = Append(waits, <<pc, outcome>>)
    /\ elapsed' = 0
    /\ CASE pc = "wait_shell_1"  -> AfterShellCheckWait(outcome)
         [] pc = "wait_login"    -> AfterLoginWait(outcome)
         [] pc = "wait_password" -> AfterPasswordWait(outcome)
         [] pc = "wait_shell_2"  -> AfterShellWait(outcome)

\* wait_for_prompt: port.read returned n > 0 bytes
WaitRead ==
    /\ transport = "serial"
    /\ pc \in WaitPcs
    /\ rx # <<>>
    /\ rx' = <<>>
    /\ LET clean_text == strip_ansi_codes(buffer \o rx)
       IN  IF Contains(clean_text, ExpectedPrompt(pc))
           THEN AfterWait("found")
           ELSE /\ buffer' = buffer \o rx
                /\ UNCHANGED <<pc, logged_in, result, login, waits, stdout,
                               command_echo_seen, line_ending, elapsed>>
    /\ reads' = reads + 1
    /\ UNCHANGED <<others, config, port, connected, op, command,
                   timeout_duration, script, transcript, spoken, tx, calls>>

\* wait_for_prompt: port.read returned Err
WaitReadError ==
    /\ transport = "serial"
    /\ pc \in WaitPcs
    /\ AfterWait("read_error")
    /\ UNCHANGED <<others, config, port, connected, op, command,
                   timeout_duration, wire, tx, reads, calls>>

\* wait_for_prompt's read loop with no timeout() around it: it never gives up
WaitWithoutTimeout ==
    /\ transport = "serial"
    /\ pc \in WaitPcs
    /\ FALSE
    /\ UNCHANGED vars

\* wait_for_prompt: the timeout expired
WaitTimeout ==
    /\ transport = "serial"
    /\ pc \in WaitPcs
    /\ elapsed >= Deadline
    /\ AfterWait("timeout")
    /\ UNCHANGED <<others, config, port, connected, op, command,
                   timeout_duration, wire, tx, reads, calls>>

\* send_command(&username)
SendUsername ==
    /\ transport = "serial"
    /\ pc = "send_username"
    /\ \E written \in BOOLEAN :
         IF written
         THEN /\ tx' = Append(tx, "username")
              /\ Goto(AfterUsername)
         ELSE /\ LoginReturnsErr("SerialConnection", "write")
              /\ UNCHANGED <<tx, logged_in>>
    /\ elapsed' = 0
    /\ UNCHANGED <<others, config, port, connected, op, command,
                   timeout_duration, wire, waits, reads, calls>>

\* send_command(&password)
SendPassword ==
    /\ transport = "serial"
    /\ pc = "send_password"
    /\ \E written \in BOOLEAN :
         IF written
         THEN /\ tx' = Append(tx, "password")
              /\ Goto(FinalStage)
         ELSE /\ LoginReturnsErr("SerialConnection", "write")
              /\ UNCHANGED <<tx, logged_in>>
    /\ elapsed' = 0
    /\ UNCHANGED <<others, config, port, connected, op, command,
                   timeout_duration, wire, waits, reads, calls>>

(***************************************************************************)
(* SerialChannel::execute_command / execute_command_with_timeout           *)
(***************************************************************************)
\* login_if_needed without its `if self.logged_in { return Ok(()) }`
ExecuteLoginAgain(cmd, t) ==
    /\ transport = "serial"
    /\ pc = "idle"
    /\ calls < MaxCalls
    /\ calls' = calls + 1
    /\ op' = "exec"
    /\ command' = cmd
    /\ timeout_duration' = t
    /\ tx' = <<>>
    /\ waits' = <<>>
    /\ reads' = 0
    /\ IF ~connected
       THEN /\ Return(Err("Communication", "not_connected"))
            /\ login' = "none"
       ELSE /\ result' = NoResult
            /\ DropLocals
            /\ login' = "running"
            /\ pc' = "ctrl_c"
    /\ UNCHANGED <<others, chan, elapsed, wire>>

\* execute_command_with_timeout without its `if !self.connected`
ExecuteUnguarded(cmd, t) ==
    /\ transport = "serial"
    /\ pc = "idle"
    /\ calls < MaxCalls
    /\ calls' = calls + 1
    /\ op' = "exec"
    /\ command' = cmd
    /\ timeout_duration' = t
    /\ tx' = <<>>
    /\ waits' = <<>>
    /\ reads' = 0
    /\ result' = NoResult
    /\ DropLocals
    /\ IF logged_in
       THEN /\ login' = "skipped"
            /\ pc' = "send_command"
       ELSE /\ login' = "running"
            /\ pc' = "ctrl_c"
    /\ UNCHANGED <<others, chan, elapsed, wire>>

\* execute_command_with_timeout up to its first suspension point: the
\* connected check, then login_if_needed()
Execute(cmd, t) ==
    /\ transport = "serial"
    /\ pc = "idle"
    /\ calls < MaxCalls
    /\ calls' = calls + 1
    /\ op' = "exec"
    /\ command' = cmd
    /\ timeout_duration' = t
    /\ tx' = <<>>
    /\ waits' = <<>>
    /\ reads' = 0
    /\ IF ~connected
       THEN /\ Return(Err("Communication", "not_connected"))
            /\ login' = "none"
       ELSE /\ result' = NoResult
            /\ DropLocals
            /\ IF logged_in
               THEN /\ login' = "skipped"
                    /\ pc' = "send_command"
               ELSE /\ login' = "running"
                    /\ pc' = "ctrl_c"
    /\ UNCHANGED <<others, chan, elapsed, wire>>

\* execute_command(command): the 30 s default
ExecuteCommand ==
    \E cmd \in Commands : Execute(cmd, DefaultTimeoutSecs)

\* execute_command_with_timeout(command, timeout_duration)
ExecuteCommandWithTimeout ==
    \E cmd \in Commands, t \in CallerTimeouts : Execute(cmd, t)

\* send_command(command); on success the read loop starts under timeout()
SendCommand ==
    /\ transport = "serial"
    /\ pc = "send_command"
    /\ \E written \in BOOLEAN :
         IF written
         THEN /\ tx' = Append(tx, "command")
              /\ pc' = "read_output"
              /\ result' = result
              /\ DropLocals
         ELSE /\ Return(Err("SerialConnection", "write"))
              /\ UNCHANGED tx
    /\ elapsed' = 0
    /\ UNCHANGED <<others, chan, op, command, timeout_duration, wire, waits,
                   login, reads, calls>>

\* `.unwrap_or_else(|| "$ ".to_string())`
EffectivePrompt ==
    IF config.shell_prompt # None THEN Unwrap(config.shell_prompt)
    ELSE DollarPrompt

\* the read loop: port.read returned n > 0 bytes
ReadOutput ==
    /\ transport = "serial"
    /\ pc = "read_output"
    /\ rx # <<>>
    /\ rx' = <<>>
    /\ LET r == ReadLoopStep(buffer \o rx, command, EffectivePrompt, stdout,
                             command_echo_seen)
       IN  IF r.done
           THEN Return(CommandOutput(r.stdout))
           ELSE /\ buffer' = buffer \o rx
                /\ stdout' = r.stdout
                /\ command_echo_seen' = r.command_echo_seen
                /\ UNCHANGED <<pc, result, line_ending>>
    /\ reads' = reads + 1
    /\ UNCHANGED <<others, chan, op, command, timeout_duration, elapsed,
                   script, transcript, spoken, tx, waits, login, calls>>

\* the read loop: port.read returned Err
ReadOutputError ==
    /\ transport = "serial"
    /\ pc = "read_output"
    /\ Return(Err("SerialConnection", "read"))
    /\ UNCHANGED <<others, chan, op, command, timeout_duration, elapsed, wire,
                   ghost, calls>>

\* timeout(timeout_duration, ..) expired: the loop is dropped
CommandTimeout ==
    /\ transport = "serial"
    /\ pc = "read_output"
    /\ elapsed >= Deadline
    /\ Return(Err("CommandExecution", "timeout"))
    /\ UNCHANGED <<others, chan, op, command, timeout_duration, elapsed, wire,
                   ghost, calls>>

(***************************************************************************)
(* SerialChannel::upload_file / download_file                              *)
(***************************************************************************)
\* a transfer that asks for a connection before it refuses
SerialTransferNeedsConnection(name, msg) ==
    /\ transport = "serial"
    /\ pc = "idle"
    /\ calls < MaxCalls
    /\ calls' = calls + 1
    /\ op' = name
    /\ tx' = <<>>
    /\ waits' = <<>>
    /\ reads' = 0
    /\ login' = "none"
    /\ IF connected THEN Return(Err("Unsupported", msg))
       ELSE Return(Err("Communication", "not_connected"))
    /\ UNCHANGED <<others, chan, command, timeout_duration, elapsed, wire>>

\* the body of both methods: Err(Error::Unsupported(..)) and nothing else
SerialTransfer(name, msg) ==
    /\ transport = "serial"
    /\ pc = "idle"
    /\ calls < MaxCalls
    /\ calls' = calls + 1
    /\ op' = name
    /\ tx' = <<>>
    /\ waits' = <<>>
    /\ reads' = 0
    /\ login' = "none"
    /\ Return(Err("Unsupported", msg))
    /\ UNCHANGED <<others, chan, command, timeout_duration, elapsed, wire>>

\* upload_file(_local_path, _remote_path)
SerialUploadFile ==
    SerialTransfer("upload_file",
                   "File upload not supported over serial connection")

\* download_file(_remote_path, _local_path)
SerialDownloadFile ==
    SerialTransfer("download_file",
                   "File download not supported over serial connection")

(***************************************************************************)
(* Time and the target                                                     *)
(***************************************************************************)
\* the instants that matter to the wait in progress: the deadline of the
\* running timeout() and, in the read loop, the timeout the caller asked for
TimePoints ==
    {Deadline} \cup (IF pc = "read_output" THEN {timeout_duration} ELSE {})

\* time passes while a timed wait is pending, up to its deadline
Tick ==
    /\ transport = "serial"
    /\ pc \in WaitPcs \cup {"read_output"}
    /\ elapsed < Deadline
    /\ elapsed' = CHOOSE p \in TimePoints :
                     /\ p > elapsed
                     /\ \A q \in TimePoints : q > elapsed => p <= q
    /\ UNCHANGED <<others, chan, pc, op, command, timeout_duration,
                   line_ending, buffer, stdout, command_echo_seen, wire,
                   result, ghost,
                   calls>>

\* the target says something of its own accord; it is lost while no port
\* is open
TargetSpeak ==
    /\ transport = "serial"
    /\ script = <<>>
    /\ spoken < MaxSpeak
    /\ spoken' = spoken + 1
    /\ \E said \in Says : rx' = IF port THEN rx \o said ELSE rx
    /\ UNCHANGED <<others, chan, frame, script, transcript, result, ghost,
                   calls>>

\* the next byte of the fixed response to the command arrives
TargetEmit ==
    /\ transport = "serial"
    /\ pc = "read_output"
    /\ script # <<>>
    /\ script' = Tail(script)
    /\ rx' = Append(rx, Head(script))
    /\ UNCHANGED <<others, chan, frame, transcript, spoken, result, ghost,
                   calls>>

(***************************************************************************)
(* The serial channel                                                      *)
(***************************************************************************)
Next ==
    \/ Connect
    \/ Disconnect
    \/ ExecuteCommand
    \/ ExecuteCommandWithTimeout
    \/ SendCtrlC
    \/ SendLineEnding
    \/ TryRead
    \/ WaitRead
    \/ WaitReadError
    \/ WaitTimeout
    \/ SendUsername
    \/ SendPassword
    \/ SendCommand
    \/ ReadOutput
    \/ ReadOutputError
    \/ CommandTimeout
    \/ Tick
    \/ TargetSpeak

Spec == Init /\ [][Next]_vars

\* the serial channel run by the tokio runtime: a call in progress is polled
\* until it returns (every write, pause and non-blocking read comes back)
\* and the timer of a pending timeout() advances and fires
Progress ==
    /\ WF_vars(SendCtrlC)
    /\ WF_vars(SendLineEnding)
    /\ WF_vars(TryRead)
    /\ WF_vars(SendUsername)
    /\ WF_vars(SendPassword)
    /\ WF_vars(Tick)
    /\ WF_vars(WaitTimeout)

SpecLive == Init /\ [][Next]_vars /\ Progress

(***************************************************************************)
(* Output extraction on its own: a connected, logged-in channel runs one   *)
(* command against a target whose whole response is fixed in advance and   *)
(* arrives byte by byte, so that every split into reads occurs             *)
(***************************************************************************)
\* longest response
MaxLen == 5

Alphabet == {"c", "h", LF, "$", "#", SP}

RECURSIVE Texts(_)
\* all texts over Alphabet of length n
Texts(n) ==
    IF n = 0 THEN {<<>>}
    ELSE {Append(t, ch) : t \in Texts(n - 1), ch \in Alphabet}

Transcripts == UNION {Texts(n) : n \in 1..MaxLen}

\* shell prompts: "$ " and a prompt with text before the "$ "
\* (such as "root@device:~$ ")
ExtractPrompts == {DollarPrompt, <<"h", "$", SP>>}

InitExtract ==
    /\ config \in [channel_type    : {"serial"},
                   login_prompt    : {None},
                   password_prompt : {None},
                   shell_prompt    : {Some(p) : p \in ExtractPrompts},
                   username        : {None},
                   password        : {None}]
    /\ port = TRUE
    /\ connected = TRUE
    /\ logged_in = TRUE
    /\ pc = "idle"
    /\ op = "connect"
    /\ command = <<>>
    /\ timeout_duration = 0
    /\ line_ending = 1
    /\ buffer = <<>>
    /\ stdout = <<>>
    /\ command_echo_seen = FALSE
    /\ elapsed = 0
    /\ rx = <<>>
    /\ transcript \in Transcripts
    /\ script = transcript
    /\ result = OkUnit
    /\ tx = <<"ctrl_c", "crlf", "lf", "cr">>
    /\ waits = <<>>
    /\ login = "ok"
    /\ reads = 0
    /\ calls = MaxCalls - 1
    /\ spoken = 0
    /\ transport = "serial"
    /\ lifecycle = "connect"
    /\ ssh_key_path = None
    /\ key_files = {}
    /\ session = None
    /\ ssh_log = <<>>
    /\ remote = NoRemote
    /\ NoPureCall
    /\ NoInstall

NextExtract ==
    \/ ExecuteCommand
    \/ SendCommand
    \/ TargetEmit
    \/ ReadOutput

SpecExtract == InitExtract /\ [][NextExtract]_vars

(***************************************************************************)
(* The login on its own: a channel configured to log in connects to a      *)
(* target that prints its login prompt once, at any moment from the start  *)
(* of the wake-up burst to the end of the wait for that prompt             *)
(***************************************************************************)
\* the positions of login_if_needed up to the end of
\* `self.wait_for_prompt(&login_prompt, 5)`
UpToLoginWait ==
    {"ctrl_c", "line_ending", "try_read", "wait_shell_1", "wait_login"}

\* the target prints the text it has in store
TargetPrints ==
    /\ transport = "serial"
    /\ port
    /\ pc \in UpToLoginWait
    /\ script # <<>>
    /\ rx' = rx \o script
    /\ script' = <<>>
    /\ UNCHANGED <<others, chan, frame, transcript, spoken, result, ghost,
                   calls>>

\* the target, given a username, asks for the password
TargetAsksPassword ==
    /\ transport = "serial"
    /\ port
    /\ pc = "wait_password"
    /\ script = <<>>
    /\ transcript = Unwrap(config.login_prompt)
    /\ rx' = rx \o Unwrap(config.password_prompt)
    /\ transcript' = transcript \o Unwrap(config.password_prompt)
    /\ UNCHANGED <<others, chan, frame, script, spoken, result, ghost, calls>>

InitLogin ==
    /\ transport = "serial"
    /\ config \in {c \in Configs : c.username # None /\ c.login_prompt # None}
    /\ port = FALSE
    /\ connected = FALSE
    /\ logged_in = FALSE
    /\ pc = "idle"
    /\ op = "none"
    /\ command = <<>>
    /\ timeout_duration = 0
    /\ line_ending = 1
    /\ buffer = <<>>
    /\ stdout = <<>>
    /\ command_echo_seen = FALSE
    /\ elapsed = 0
    /\ rx = <<>>
    /\ transcript = Unwrap(config.login_prompt)
    /\ script = transcript
    /\ result = NoResult
    /\ tx = <<>>
    /\ waits = <<>>
    /\ login = "none"
    /\ reads = 0
    /\ calls = 0
    /\ spoken = 0
    /\ lifecycle = "new"
    /\ ssh_key_path = None
    /\ key_files = {}
    /\ session = None
    /\ ssh_log = <<>>
    /\ remote = NoRemote
    /\ NoPureCall
    /\ NoInstall

NextLogin ==
    \/ Connect
    \/ SendCtrlC
    \/ SendLineEnding
    \/ TryRead
    \/ WaitRead
    \/ WaitReadError
    \/ WaitTimeout
    \/ SendUsername
    \/ SendPassword
    \/ Tick
    \/ TargetPrints
    \/ TargetAsksPassword

SpecLogin == InitLogin /\ [][NextLogin]_vars

(***************************************************************************)
(* A command on a channel whose port still holds bytes nobody read: the    *)
(* channel is connected, logged in and idle, and the target answers the    *)
(* command byte by byte                                                    *)
(***************************************************************************)
\* what an earlier exchange left in the port: output and a prompt that came
\* after an early prompt match, the late answer to a command that timed out
StaleTexts ==
    {<<"h", LF, "$", SP>>,
     <<"c", LF, "h", LF, "$", SP>>}

\* the target's answers to the command: its echo and the prompt, with a
\* line of output or without
Answers ==
    {<<"c", LF, "$", SP>>,
     <<"c", LF, "u", LF, "$", SP>>}

InitStale ==
    /\ transport = "serial"
    /\ config \in [channel_type    : {"serial"},
                   login_prompt    : {None},
                   password_prompt : {None},
                   shell_prompt    : {None, Some(DollarPrompt)},
                   username        : {None},
                   password        : {None}]
    /\ port = TRUE
    /\ connected = TRUE
    /\ logged_in = TRUE
    /\ pc = "idle"
    /\ op = "connect"
    /\ command = <<>>
    /\ timeout_duration = 0
    /\ line_ending = 1
    /\ buffer = <<>>
    /\ stdout = <<>>
    /\ command_echo_seen = FALSE
    /\ elapsed = 0
    /\ rx \in StaleTexts
    /\ transcript \in Answers
    /\ script = transcript
    /\ result = OkUnit
    /\ tx = <<"ctrl_c", "crlf", "lf", "cr">>
    /\ waits = <<>>
    /\ login = "ok"
    /\ reads = 0
    /\ calls = MaxCalls - 1
    /\ spoken = 0
    /\ lifecycle = "connect"
    /\ ssh_key_path = None
    /\ key_files = {}
    /\ session = None
    /\ ssh_log = <<>>
    /\ remote = NoRemote
    /\ NoPureCall
    /\ NoInstall

SpecStale == InitStale /\ [][NextExtract]_vars

(***************************************************************************)
(* The completion test and the prompt removal: one command on a connected, *)
(* logged-in channel, every short text as the bytes that follow it, and a  *)
(* configured prompt that holds "$ " or does not                           *)
(***************************************************************************)
\* longest text that follows the command
MaxAnswer == 4

AnswerTexts == UNION {Texts(n) : n \in 1..MaxAnswer}

\* shell prompts: "$ ", a prompt that ends with it, a prompt without it
AnswerPrompts == {DollarPrompt, <<"h", "$", SP>>, <<"h", SP>>}

InitAnswer ==
    /\ transport = "serial"
    /\ config \in [channel_type    : {"serial"},
                   login_prompt    : {None},
                   password_prompt : {None},
                   shell_prompt    : {Some(p) : p \in AnswerPrompts},
                   username        : {None},
                   password        : {None}]
    /\ port = TRUE
    /\ connected = TRUE
    /\ logged_in = TRUE
    /\ pc = "idle"
    /\ op = "connect"
    /\ command = <<>>
    /\ timeout_duration = 0
    /\ line_ending = 1
    /\ buffer = <<>>
    /\ stdout = <<>>
    /\ command_echo_seen = FALSE
    /\ elapsed = 0
    /\ rx = <<>>
    /\ transcript \in AnswerTexts
    /\ script = transcript
    /\ result = OkUnit
    /\ tx = <<"ctrl_c", "crlf", "lf", "cr">>
    /\ waits = <<>>
    /\ login = "ok"
    /\ reads = 0
    /\ calls = MaxCalls - 1
    /\ spoken = 0
    /\ lifecycle = "connect"
    /\ ssh_key_path = None
    /\ key_files = {}
    /\ session = None
    /\ ssh_log = <<>>
    /\ remote = NoRemote
    /\ NoPureCall
    /\ NoInstall

SpecAnswer == InitAnswer /\ [][NextExtract]_vars

(***************************************************************************)
(* The prompt removal on its own: the statements that follow               *)
(* `if has_prompt`, applied to every short working stdout                  *)
(***************************************************************************)
\* `for prompt_pattern in ["$ ", "# ", &shell_prompt] { .. }` and
\* `stdout = stdout.trim().to_string()`; raw_text is the working stdout,
\* stripped_text what is returned
RemovePromptFromStdout ==
    /\ transport = "none"
    /\ op = "none"
    /\ op' = "remove_prompt"
    /\ stripped_text' = RemovePrompt(raw_text, EffectivePrompt)
    /\ UNCHANGED <<config, port, connected, logged_in, pc, command,
                   timeout_duration, line_ending, buffer, stdout,
                   command_echo_seen, elapsed, wire, result, tx, waits,
                   login, reads, calls, transport, lifecycle, ssh, raw_text,
                   test_names, machine_config, filtered_tests, key_install>>

InitRemove ==
    /\ transport = "none"
    /\ lifecycle = "none"
    /\ config \in [channel_type    : {"serial"},
                   login_prompt    : {None},
                   password_prompt : {None},
                   shell_prompt    : {None} \cup {Some(p) : p \in AnswerPrompts},
                   username        : {None},
                   password        : {None}]
    /\ ssh_key_path = None
    /\ key_files = {}
    /\ NoCalls
    /\ NoInstall
    /\ raw_text \in {<<>>} \cup Transcripts
    /\ stripped_text = <<>>
    /\ test_names = <<>>
    /\ machine_config = None
    /\ filtered_tests = <<>>

SpecRemove == InitRemove /\ [][RemovePromptFromStdout]_vars

(***************************************************************************)
(* SshChannel: values                                                      *)
(***************************************************************************)
\* the key path a user configures
CustomKey == "custom_key"

\* the key locations try_key_auth walks through when none is configured
DefaultKeyPaths ==
    <<"test_device_key", "~/.ssh/test_device_key", "~/.ssh/id_ed25519",
      "~/.ssh/id_rsa", "~/.ssh/id_ecdsa", "~/.ssh/id_dsa">>

\* `let key_paths = if let Some(key_path) = &self.config.ssh_key_path`
KeyPaths ==
    IF ssh_key_path # None THEN <<Unwrap(ssh_key_path)>> ELSE DefaultKeyPaths

Range(s) == {s[i] : i \in 1..Len(s)}

\* `let default_keys = [..]` of SshClient (ssh.rs)
ClientKeyPaths ==
    <<"~/.ssh/test_ed25519", "~/.ssh/id_ed25519", "~/.ssh/id_rsa",
      "~/.ssh/id_ecdsa">>

\* the key files that may exist on disk: those the implementation looks for
KeyFiles ==
    {CustomKey} \cup
    (IF transport = "ssh" THEN Range(DefaultKeyPaths)
     ELSE Range(ClientKeyPaths))

\* one call into a library, with its argument and its outcome
Call(name, arg, outcome) == <<name, arg, outcome>>

RECURSIVE RunSteps(_, _, _)
\* the calls of a chain of `?` steps of which the k-th fails (none if k = 0),
\* from step i on: the steps after the failing one are not made
RunSteps(steps, k, i) ==
    IF i > Len(steps) THEN <<>>
    ELSE IF i = k THEN <<Call(steps[i], "", "err")>>
    ELSE <<Call(steps[i], "", "ok")>> \o RunSteps(steps, k, i + 1)

\* the timeouts callers pass to execute_command_with_timeout (seconds)
SshTimeouts == {30, 60}

\* what the remote end does with a command: the step of the exchange that
\* fails (0 if none), the two streams, the exit status, the seconds it takes
Remotes ==
    [fails     : {0},
     stdout    : {<<"h">>},
     stderr    : {<<>>, <<"e">>},
     exit_code : {0, 1},
     duration  : {0, 45, 90}]
    \cup
    [fails     : 1..6,
     stdout    : {<<>>},
     stderr    : {<<>>},
     exit_code : {0},
     duration  : {0, 90}]

\* CommandOutput { stdout, stderr, exit_code }
SshCommandOutput(out, err, code) ==
    [ok |-> TRUE, kind |-> "output", error |-> "", msg |-> "",
     stdout |-> out, stderr |-> err, exit_code |-> code]

\* a call that runs no command has no command, no timeout and no remote end
NoCommand ==
    /\ remote' = NoRemote
    /\ command' = <<>>
    /\ timeout_duration' = 0

\* the variables of the serial channels the SSH channels leave alone
serial_only == <<config, port, logged_in, pc, line_ending, buffer, stdout,
                 command_echo_seen, elapsed, wire, ghost>>

(***************************************************************************)
(* SshChannel::try_key_auth and connect                                    *)
(***************************************************************************)
RECURSIVE KeyLoopNoBreak(_, _, _, _)
\* the loop without its `break`: a configured key that fails is followed by
\* the conventional locations
KeyLoopNoBreak(key_paths, i, exists, accepts) ==
    IF i > Len(key_paths)
    THEN IF key_paths = DefaultKeyPaths THEN [log |-> <<>>, ok |-> FALSE]
         ELSE KeyLoopNoBreak(DefaultKeyPaths, 1, exists, accepts)
    ELSE IF key_paths[i] \notin exists
    THEN KeyLoopNoBreak(key_paths, i + 1, exists, accepts)
    ELSE IF key_paths[i] \in accepts
    THEN [log |-> <<Call("userauth_pubkey_file", key_paths[i], "ok")>>,
          ok  |-> TRUE]
    ELSE LET rest == KeyLoopNoBreak(key_paths, i + 1, exists, accepts)
         IN  [log |-> <<Call("userauth_pubkey_file", key_paths[i], "err")>>
                      \o rest.log,
              ok  |-> rest.ok]

RECURSIVE KeyLoop(_, _, _, _)
\* `for key_path in key_paths` from the i-th path on: the files in `exists`
\* are on disk, the server accepts the keys in `accepts` (the public key
\* file is handed to userauth_pubkey_file when it exists)
KeyLoop(key_paths, i, exists, accepts) ==
    IF i > Len(key_paths) THEN [log |-> <<>>, ok |-> FALSE]
    ELSE IF key_paths[i] \notin exists
    THEN KeyLoop(key_paths, i + 1, exists, accepts)
    ELSE IF key_paths[i] \in accepts
    THEN [log |-> <<Call("userauth_pubkey_file", key_paths[i], "ok")>>,
          ok  |-> TRUE]
    ELSE IF ssh_key_path # None
    THEN [log |-> <<Call("userauth_pubkey_file", key_paths[i], "err")>>,
          ok  |-> FALSE]
    ELSE LET rest == KeyLoop(key_paths, i + 1, exists, accepts)
         IN  [log |-> <<Call("userauth_pubkey_file", key_paths[i], "err")>>
                      \o rest.log,
              ok  |-> rest.ok]

\* try_key_auth(&session)
try_key_auth(exists, accepts) == KeyLoop(KeyPaths, 1, exists, accepts)

\* the password is tried whatever try_key_auth returned
PasswordAlways(key_ok) == TRUE

\* `if !self.try_key_auth(&session)?`
PasswordNeeded(key_ok) == ~key_ok

\* the session is kept without asking whether it authenticated
SessionKeptUnchecked(authenticated) == TRUE

\* `if !session.authenticated() { return Err(..) }`
SessionKept(authenticated) == authenticated

\* TcpStream::connect, set_read_timeout, Session::new, handshake
ConnectSteps ==
    <<"TcpStream::connect", "set_read_timeout", "Session::new", "handshake">>

\* connect() in an environment: the k-th step of the set-up fails (0: none),
\* the key files `exists` and `accepts`, whether the server takes the
\* password, and what session.authenticated() answers in the end
SshChannelConnect(k, exists, accepts, password_ok, authenticated) ==
    LET setup == RunSteps(ConnectSteps, k, 1)
        key   == try_key_auth(exists, accepts)
        pw    == IF PasswordNeeded(key.ok)
                 THEN <<Call("userauth_password", "",
                             IF password_ok THEN "ok" ELSE "err")>>
                 ELSE <<>>
        asked == <<Call("authenticated", "",
                        IF authenticated THEN "true" ELSE "false")>>
    IN  IF k # 0
        THEN [log |-> setup, result |-> Err("SshConnection", ConnectSteps[k]),
              session |-> None]
        ELSE IF PasswordNeeded(key.ok) /\ ~password_ok
        THEN [log |-> setup \o key.log \o pw,
              result |-> Err("SshAuth", "userauth_password"),
              session |-> None]
        ELSE IF ~SessionKept(authenticated)
        THEN [log |-> setup \o key.log \o pw \o asked,
              result |-> Err("SshAuth", "Authentication failed"),
              session |-> None]
        ELSE [log |-> setup \o key.log \o pw \o asked,
              result |-> OkUnit,
              session |-> Some([authenticated |-> authenticated])]

\* the keys the server may accept, given the key files on disk: none of
\* them, one of them, all of them
Accepted(exists) == {{}, exists} \cup {{f} : f \in exists}

\* the environments of a connect(): the step of the set-up that fails or, if
\* none does, the keys and the password the server accepts and whether the
\* session counts as authenticated in the end
ConnectEnvs ==
    [k : 1..Len(ConnectSteps), accepts : {{}}, password_ok : {FALSE},
     authenticated : {FALSE}]
    \cup
    [k : {0}, accepts : Accepted(key_files), password_ok : BOOLEAN,
     authenticated : BOOLEAN]

\* SshChannel::connect()
SshConnect ==
    /\ transport = "ssh"
    /\ calls < MaxCalls
    /\ calls' = calls + 1
    /\ op' = "connect"
    /\ lifecycle' = "connect"
    /\ \E env \in ConnectEnvs :
            LET r == SshChannelConnect(env.k, key_files, env.accepts,
                                       env.password_ok, env.authenticated)
            IN  /\ ssh_log' = r.log
                /\ result' = r.result
                /\ session' = IF r.result.ok THEN r.session ELSE session
                /\ connected' = IF r.result.ok THEN TRUE ELSE connected
    /\ NoCommand
    /\ UNCHANGED <<transport, pure, key_install, ssh_key_path, key_files, serial_only>>

\* disconnect()
SshDisconnect ==
    /\ transport = "ssh"
    /\ calls < MaxCalls
    /\ calls' = calls + 1
    /\ op' = "disconnect"
    /\ \E sent \in BOOLEAN :
         IF session # None /\ ~sent
         THEN /\ ssh_log' = <<Call("disconnect", "", "err")>>
              /\ result' = Err("SshConnection", "disconnect")
              /\ UNCHANGED <<session, connected, lifecycle>>
         ELSE /\ ssh_log' = IF session # None
                            THEN <<Call("disconnect", "", "ok")>> ELSE <<>>
              /\ session' = None
              /\ connected' = FALSE
              /\ lifecycle' = "disconnect"
              /\ result' = OkUnit
    /\ NoCommand
    /\ UNCHANGED <<transport, pure, key_install, ssh_key_path, key_files, serial_only>>

(***************************************************************************)
(* SshChannel::execute_command / execute_command_with_timeout              *)
(***************************************************************************)
\* the exit status asked for before the wait for the close
ExecStepsStatusFirst ==
    <<"channel_session", "exec", "read_to_string",
      "stderr().read_to_string", "exit_status", "wait_close">>

\* channel_session, exec, read_to_string (stdout), stderr().read_to_string,
\* wait_close, exit_status
ExecSteps ==
    <<"channel_session", "exec", "read_to_string",
      "stderr().read_to_string", "wait_close", "exit_status">>

\* a command that took longer than the timeout is given up
ExecResultAborting(t, r) ==
    IF r.fails # 0 THEN Err("CommandExecution", ExecSteps[r.fails])
    ELSE IF r.duration > t THEN Err("CommandExecution", "timeout")
    ELSE SshCommandOutput(r.stdout, r.stderr, r.exit_code)

\* what execute_command_with_timeout(command, _timeout) returns when the
\* remote end does r
ExecResult(t, r) ==
    IF r.fails # 0 THEN Err("CommandExecution", ExecSteps[r.fails])
    ELSE SshCommandOutput(r.stdout, r.stderr, r.exit_code)

\* execute_command_with_timeout(command, _timeout)
SshExecute(cmd, t) ==
    /\ transport = "ssh"
    /\ calls < MaxCalls
    /\ calls' = calls + 1
    /\ op' = "exec"
    /\ command' = cmd
    /\ timeout_duration' = t
    /\ IF session = None
       THEN /\ ssh_log' = <<>>
            /\ remote' = NoRemote
            /\ result' = Err("Communication", "Not connected")
       ELSE \E r \in Remotes :
               /\ ssh_log' = RunSteps(ExecSteps, r.fails, 1)
               /\ remote' = r
               /\ result' = ExecResult(t, r)
    /\ UNCHANGED <<transport, pure, key_install, lifecycle, ssh_key_path, key_files, session,
                   connected, serial_only>>

\* execute_command(command) with the default of the serial channels
SshExecuteCommand30 ==
    \E cmd \in Commands : SshExecute(cmd, DefaultTimeoutSecs)

\* execute_command(command)
SshExecuteCommand ==
    \E cmd \in Commands : SshExecute(cmd, SshDefaultTimeoutSecs)

\* execute_command_with_timeout(command, timeout)
SshExecuteCommandWithTimeout ==
    \E cmd \in Commands, t \in SshTimeouts : SshExecute(cmd, t)

(***************************************************************************)
(* SshChannel::upload_file / download_file                                 *)
(***************************************************************************)
\* upload_file: the local file, the sized stream, the copy, the four steps
\* that end the transfer
UploadSteps ==
    <<"File::open", "metadata", "scp_send", "File::open", "io::copy",
      "send_eof", "wait_eof", "close", "wait_close">>

\* download_file: the stream, the local file, the copy, the same four steps
DownloadSteps ==
    <<"scp_recv", "File::create", "io::copy",
      "send_eof", "wait_eof", "close", "wait_close">>

\* `.map_err(Error::Io)` on the local file, Error::Communication elsewhere
TransferError(step) ==
    IF step \in {"File::open", "metadata", "File::create"}
    THEN Err("Io", step) ELSE Err("Communication", step)

RECURSIVE RunStepsUnchecked(_, _, _)
\* the chain with the results of its steps dropped instead of passed on
RunStepsUnchecked(steps, k, i) ==
    IF i > Len(steps) THEN <<>>
    ELSE <<Call(steps[i], "", IF i = k THEN "err" ELSE "ok")>>
         \o RunStepsUnchecked(steps, k, i + 1)

\* a transfer that goes on after a step has failed
TransferLogUnchecked(steps, k) == RunStepsUnchecked(steps, k, 1)

\* the calls a transfer makes when its k-th step fails (none if k = 0)
TransferLog(steps, k) == RunSteps(steps, k, 1)

\* upload_file or download_file
Transfer(name, steps) ==
    /\ transport = "ssh"
    /\ calls < MaxCalls
    /\ calls' = calls + 1
    /\ op' = name
    /\ IF session = None
       THEN /\ ssh_log' = <<>>
            /\ result' = Err("Communication", "Not connected")
       ELSE \E k \in 0..Len(steps) :
               /\ ssh_log' = TransferLog(steps, k)
               /\ result' = IF k = 0 THEN OkUnit
                            ELSE TransferError(steps[k])
    /\ NoCommand
    /\ UNCHANGED <<transport, pure, key_install, lifecycle, ssh_key_path, key_files, session,
                   connected, serial_only>>

\* upload_file(local_path, remote_path)
UploadFile == Transfer("upload_file", UploadSteps)

\* download_file(remote_path, local_path)
DownloadFile == Transfer("download_file", DownloadSteps)

(***************************************************************************)
(* SshClient (ssh.rs), the client the Target owns                          *)
(***************************************************************************)
\* try_key_file(session, key_path): the log of the attempt and its answer
try_key_file(key_path, accepts, authenticated) ==
    IF key_path \in accepts
    THEN [log |-> <<Call("userauth_pubkey_file", key_path, "ok"),
                    Call("authenticated", "",
                         IF authenticated THEN "true" ELSE "false")>>,
          ok  |-> authenticated]
    ELSE [log |-> <<Call("userauth_pubkey_file", key_path, "err")>>,
          ok  |-> FALSE]

RECURSIVE ClientKeyLoop(_, _, _, _)
\* `for key_path in &default_keys` from the i-th path on
ClientKeyLoop(i, exists, accepts, authenticated) ==
    IF i > Len(ClientKeyPaths) THEN [log |-> <<>>, ok |-> FALSE]
    ELSE IF ClientKeyPaths[i] \notin exists
    THEN ClientKeyLoop(i + 1, exists, accepts, authenticated)
    ELSE LET try  == try_key_file(ClientKeyPaths[i], accepts, authenticated)
             rest == ClientKeyLoop(i + 1, exists, accepts, authenticated)
         IN  IF try.ok THEN try
             ELSE [log |-> try.log \o rest.log, ok |-> rest.ok]

\* try_key_authentication(&mut sess): the configured key first, then the
\* default locations
try_key_authentication(exists, accepts, authenticated) ==
    LET first == IF ssh_key_path # None
                 THEN try_key_file(Unwrap(ssh_key_path), accepts,
                                   authenticated)
                 ELSE [log |-> <<>>, ok |-> FALSE]
        rest  == ClientKeyLoop(1, exists, accepts, authenticated)
    IN  IF first.ok THEN first
        ELSE [log |-> first.log \o rest.log, ok |-> rest.ok]

\* SshClient::connect() in an environment
SshClientConnect(k, exists, accepts, password_ok, authenticated) ==
    LET setup == RunSteps(ConnectSteps, k, 1)
        key   == try_key_authentication(exists, accepts, authenticated)
        pw    == <<Call("userauth_password", "",
                        IF password_ok THEN "ok" ELSE "err")>>
        asked == <<Call("authenticated", "",
                        IF authenticated THEN "true" ELSE "false")>>
    IN  IF k # 0
        THEN [log |-> setup, result |-> Err("SshConnection", ConnectSteps[k]),
              session |-> None]
        ELSE IF key.ok
        THEN [log |-> setup \o key.log, result |-> OkUnit,
              session |-> Some([authenticated |-> authenticated])]
        ELSE IF ~password_ok
        THEN [log |-> setup \o key.log \o pw,
              result |-> Err("SshAuth", "userauth_password"),
              session |-> None]
        ELSE IF ~authenticated
        THEN [log |-> setup \o key.log \o pw \o asked,
              result |-> Err("SshAuth", "Both key and password failed"),
              session |-> None]
        ELSE [log |-> setup \o key.log \o pw \o asked, result |-> OkUnit,
              session |-> Some([authenticated |-> authenticated])]

\* SshClient::connect()
ClientConnect ==
    /\ transport = "ssh_client"
    /\ calls < MaxCalls
    /\ calls' = calls + 1
    /\ op' = "connect"
    /\ lifecycle' = "connect"
    /\ \E env \in ConnectEnvs :
            LET r == SshClientConnect(env.k, key_files, env.accepts,
                                      env.password_ok, env.authenticated)
            IN  /\ ssh_log' = r.log
                /\ result' = r.result
                /\ session' = IF r.result.ok THEN r.session ELSE session
    /\ NoCommand
    /\ UNCHANGED <<transport, pure, key_install, ssh_key_path, key_files, connected,
                   serial_only>>

\* SshClient::disconnect(): `self.session.take()`
ClientDisconnect ==
    /\ transport = "ssh_client"
    /\ calls < MaxCalls
    /\ calls' = calls + 1
    /\ op' = "disconnect"
    /\ session' = None
    /\ lifecycle' = "disconnect"
    /\ \E sent \in BOOLEAN :
         IF session # None /\ ~sent
         THEN /\ ssh_log' = <<Call("disconnect", "", "err")>>
              /\ result' = Err("SshConnection", "disconnect")
         ELSE /\ ssh_log' = IF session # None
                            THEN <<Call("disconnect", "", "ok")>> ELSE <<>>
              /\ result' = OkUnit
    /\ NoCommand
    /\ UNCHANGED <<transport, pure, key_install, ssh_key_path, key_files, connected,
                   serial_only>>

\* CommandResult { stdout, stderr, exit_code, duration }
CommandResult(out, err, code, duration) ==
    [ok |-> TRUE, kind |-> "output", error |-> "", msg |-> "",
     stdout |-> out, stderr |-> err, exit_code |-> code,
     duration |-> duration]

\* what SshClient::execute_command_with_timeout(command, timeout) returns
\* when the remote end does r
ClientExecResult(t, r) ==
    IF r.fails # 0 THEN Err("CommandExecution", ExecSteps[r.fails])
    ELSE CommandResult(r.stdout, r.stderr, r.exit_code, r.duration)

\* `if duration > timeout { warn!(..) }`
ClientWarning(t, r) ==
    IF r.fails = 0 /\ r.duration > t
    THEN <<Call("warn!", "exceeds timeout", "")>> ELSE <<>>

\* SshClient::execute_command_with_timeout(command, timeout)
ClientExecute(cmd, t) ==
    /\ transport = "ssh_client"
    /\ calls < MaxCalls
    /\ calls' = calls + 1
    /\ op' = "exec"
    /\ command' = cmd
    /\ timeout_duration' = t
    /\ IF session = None
       THEN /\ ssh_log' = <<>>
            /\ remote' = NoRemote
            /\ result' = Err("SshConnection", "Not connected")
       ELSE \E r \in Remotes :
               /\ ssh_log' = RunSteps(ExecSteps, r.fails, 1)
                               \o ClientWarning(t, r)
               /\ remote' = r
               /\ result' = ClientExecResult(t, r)
    /\ UNCHANGED <<transport, pure, key_install, lifecycle, ssh_key_path, key_files, session,
                   connected, serial_only>>

\* SshClient::execute_command(command) with the default of the serial
\* channels
ClientExecuteCommand30 ==
    \E cmd \in Commands : ClientExecute(cmd, DefaultTimeoutSecs)

\* SshClient::execute_command(command)
ClientExecuteCommand ==
    \E cmd \in Commands : ClientExecute(cmd, SshDefaultTimeoutSecs)

\* SshClient::execute_command_with_timeout(command, timeout)
ClientExecuteCommandWithTimeout ==
    \E cmd \in Commands, t \in SshTimeouts : ClientExecute(cmd, t)

(***************************************************************************)
(* The SSH channel and the SSH client                                      *)
(***************************************************************************)
\* SshChannel::new / SshClient::new: no session, not connected
InitSsh ==
    /\ transport \in {"ssh", "ssh_client"}
    /\ ssh_key_path \in {None, Some(CustomKey)}
    /\ key_files \in SUBSET KeyFiles
    /\ config = NoSerialConfig
    /\ New

\* impl CommunicationChannel for SshChannel
NextSshChannel ==
    \/ SshConnect
    \/ SshDisconnect
    \/ SshExecuteCommand
    \/ SshExecuteCommandWithTimeout
    \/ UploadFile
    \/ DownloadFile

\* impl SshClient
NextSshClient ==
    \/ ClientConnect
    \/ ClientDisconnect
    \/ ClientExecuteCommand
    \/ ClientExecuteCommandWithTimeout

NextSsh ==
    \/ NextSshChannel
    \/ NextSshClient

SpecSsh == InitSsh /\ [][NextSsh]_vars

(***************************************************************************)
(* WindowsSerialChannel (serial_channel_windows.rs): the text functions    *)
(***************************************************************************)
RECURSIVE win_strip_ansi_codes(_)
\* strip_ansi_codes of the Windows channel: the character after an ESC is
\* consumed whatever it is, and carriage returns are dropped
win_strip_ansi_codes(input) ==
    IF input = <<>> THEN <<>>
    ELSE IF Head(input) = ESC
         THEN IF Len(input) >= 2 /\ input[2] = "["
              THEN win_strip_ansi_codes(
                       SkipSequence(SubSeq(input, 3, Len(input))))
              ELSE win_strip_ansi_codes(SubSeq(input, 3, Len(input)))
         ELSE IF Head(input) # CR
         THEN <<Head(input)>> \o win_strip_ansi_codes(Tail(input))
         ELSE win_strip_ansi_codes(Tail(input))

\* has_prompt(text): the patterns are looked for in the trimmed last line
has_prompt(text) ==
    LET lines == Lines(text)
    IN  IF lines = <<>> THEN FALSE
        ELSE LET trimmed == Trim(lines[Len(lines)])
             IN  \/ EndsWith(trimmed, <<"$", SP>>)
                 \/ EndsWith(trimmed, <<"#", SP>>)
                 \/ EndsWith(trimmed, <<"$">>)
                 \/ EndsWith(trimmed, <<"#">>)
                 \/ Contains(trimmed, <<"$", SP>>)
                 \/ Contains(trimmed, <<"#", SP>>)

\* Result<String> of read_response
OkText(text) == [ok |-> TRUE, kind |-> "text", error |-> "", msg |-> "",
                 stdout |-> text, stderr |-> <<>>, exit_code |-> 0]

\* Ok(cleaned_response) after `warn!("Timeout reached, returning partial
\* response")`: the same Ok(String), the warning kept in msg
PartialText(text) == [OkText(text) EXCEPT !.msg = "partial"]

\* what the port delivers while a read_response call runs: a read error, or
\* the bytes received until the call returned
Responses ==
    {[error |-> TRUE, raw |-> <<>>]} \cup
    [error : {FALSE},
     raw   : {<<>>, LoginPrompt, PasswordPrompt,
              <<"c", CR, LF, "h", CR, LF, "$", SP>>}]

\* read_response(timeout): returns the stripped text as soon as it shows a
\* prompt, at the timeout the partial text if there is any
read_response(response) ==
    LET cleaned_response == win_strip_ansi_codes(response.raw)
    IN  IF response.error THEN Err("SerialConnection", "Read error")
        ELSE IF has_prompt(cleaned_response) THEN OkText(cleaned_response)
        ELSE IF Trim(cleaned_response) = <<>>
        THEN Err("SerialConnection", "Timeout: no response received")
        ELSE PartialText(cleaned_response)

\* what a read_response call may return
ReadResults == {read_response(response) : response \in Responses}

RECURSIVE WinStdoutLines(_, _, _, _)
\* `for line in lines` of execute_command_with_timeout: the lines kept
WinStdoutLines(lines, i, found_command, cmd) ==
    IF i > Len(lines) THEN <<>>
    ELSE LET line         == lines[i]
             trimmed_line == Trim(line)
         IN  IF ~found_command /\ trimmed_line = <<>>
             THEN WinStdoutLines(lines, i + 1, found_command, cmd)
             ELSE IF ~found_command /\ (Contains(trimmed_line, cmd)
                                        \/ EndsWith(trimmed_line, cmd))
             THEN WinStdoutLines(lines, i + 1, TRUE, cmd)
             ELSE IF ~found_command
             THEN WinStdoutLines(lines, i + 1, found_command, cmd)
             ELSE IF has_prompt(line) THEN <<>>
             ELSE <<line>> \o WinStdoutLines(lines, i + 1, found_command, cmd)

\* the stdout execute_command_with_timeout makes of a response
WinStdout(response, cmd) ==
    LET cleaned_response == win_strip_ansi_codes(response)
        joined       == JoinLines(WinStdoutLines(Lines(cleaned_response), 1,
                                                 FALSE, cmd))
        last_newline == RFind(joined, <<LF>>)
        content      == IF last_newline # None
                           /\ has_prompt(SubSeq(joined,
                                                Unwrap(last_newline) + 1,
                                                Len(joined)))
                        THEN SubSeq(joined, 1, Unwrap(last_newline))
                        ELSE joined
    IN  Trim(content)

(***************************************************************************)
(* WindowsSerialChannel: login_if_needed, connect, disconnect, commands    *)
(***************************************************************************)
\* rounds of read_response a wait_for_prompt makes before its timeout
WinRounds == 2

\* the variables of the other channels the Windows channel leaves alone
windows_unused == <<logged_in, pc, line_ending, buffer, stdout,
                    command_echo_seen, elapsed, wire, login, ssh>>

\* a read_response call made at `stage` and what it returned: "prompt" for
\* text returned as soon as it showed a prompt, "partial" for text returned
\* because the timeout was reached, or the message of its error
Heard(stage, r) ==
    <<stage, IF ~r.ok THEN r.msg
             ELSE IF r.msg = "partial" THEN "partial" ELSE "prompt">>

\* a method returns r after it wrote `log` and made the read_response
\* calls `heard`
WinReturns(r, log, heard) ==
    /\ result' = r
    /\ tx' = log
    /\ reads' = Len(heard)
    /\ waits' = heard

\* the stage of login_if_needed after the username was sent
WinAfterUsername ==
    IF config.password_prompt # None /\ config.password # None
    THEN "wait_password"
    ELSE IF config.shell_prompt # None THEN "wait_shell" ELSE "read_shell"

\* the stage after the password was sent
WinAfterPassword ==
    IF config.shell_prompt # None THEN "wait_shell" ELSE "read_shell"

\* the prompt a wait_for_prompt call looks for
WinExpected(stage) ==
    CASE stage = "wait_login"    -> Unwrap(config.login_prompt)
      [] stage = "wait_password" -> Unwrap(config.password_prompt)
      [] stage = "wait_shell"    -> Unwrap(config.shell_prompt)

\* the stage after a wait_for_prompt that found its prompt
WinAfterWait(stage) ==
    CASE stage = "wait_login"    -> "send_username"
      [] stage = "wait_password" -> "send_password"
      [] stage = "wait_shell"    -> "done"

RECURSIVE WinLogin(_, _, _, _)
\* login_if_needed from `stage` on, `log` written and the read_response
\* calls `heard` made so far, `rounds` rounds left in the wait_for_prompt
\* in progress
WinLogin(stage, log, heard, rounds) ==
    CASE stage = "burst" ->
           \E k \in 0..(Len(Burst) + 1) :
              IF k = 0 THEN WinLogin("first_read", log \o Burst, heard, 0)
              ELSE WinReturns(Err("SerialConnection", "write"),
                              log \o SubSeq(Burst, 1, k - 1), heard)
      [] stage = "first_read" ->
           \E r \in ReadResults :
              LET now == Append(heard, Heard(stage, r))
              IN  IF r.ok /\ has_prompt(win_strip_ansi_codes(r.stdout))
                  THEN WinReturns(OkUnit, log, now)
                  ELSE IF config.login_prompt # None /\ config.username # None
                  THEN WinLogin("wait_login", log, now, WinRounds)
                  ELSE WinReturns(OkUnit, log, now)
      [] stage \in {"wait_login", "wait_password", "wait_shell"} ->
           IF rounds = 0
           THEN WinReturns(Err("SerialConnection",
                               "Timeout waiting for prompt"), log, heard)
           ELSE \E r \in ReadResults :
                   LET now == Append(heard, Heard(stage, r))
                   IN  IF ~r.ok THEN WinReturns(r, log, now)
                       ELSE IF Contains(win_strip_ansi_codes(r.stdout),
                                        WinExpected(stage))
                       THEN WinLogin(WinAfterWait(stage), log, now, WinRounds)
                       ELSE WinLogin(stage, log, now, rounds - 1)
      [] stage = "send_username" ->
           \E written \in BOOLEAN :
              IF written
              THEN WinLogin(WinAfterUsername, Append(log, "username"), heard,
                            WinRounds)
              ELSE WinReturns(Err("SerialConnection", "write"), log, heard)
      [] stage = "send_password" ->
           \E written \in BOOLEAN :
              IF written
              THEN WinLogin(WinAfterPassword, Append(log, "password"), heard,
                            WinRounds)
              ELSE WinReturns(Err("SerialConnection", "write"), log, heard)
      [] stage = "read_shell" ->
           \E r \in ReadResults :
              LET now == Append(heard, Heard(stage, r))
              IN  IF ~r.ok THEN WinReturns(r, log, now)
                  ELSE IF ~has_prompt(r.stdout)
                  THEN WinReturns(Err("SerialConnection",
                                      "Failed to reach shell prompt"),
                                  log, now)
                  ELSE WinReturns(OkUnit, log, now)
      [] stage = "done" -> WinReturns(OkUnit, log, heard)

\* connect(): open the port, set connected, then login_if_needed()
WinConnect ==
    /\ transport = "windows"
    /\ calls < MaxCalls
    /\ calls' = calls + 1
    /\ op' = "connect"
    /\ lifecycle' = "connect"
    /\ \E opened \in BOOLEAN :
         IF ~opened
         THEN /\ WinReturns(Err("SerialConnection", "open"), <<>>, <<>>)
              /\ UNCHANGED <<port, connected>>
         ELSE /\ port' = TRUE
              /\ connected' = TRUE
              /\ WinLogin("burst", <<>>, <<>>, 0)
    /\ UNCHANGED <<transport, pure, key_install, config, command, timeout_duration,
                   windows_unused>>

\* disconnect()
WinDisconnect ==
    /\ transport = "windows"
    /\ calls < MaxCalls
    /\ calls' = calls + 1
    /\ op' = "disconnect"
    /\ lifecycle' = "disconnect"
    /\ IF connected
       THEN port' = FALSE /\ connected' = FALSE
       ELSE UNCHANGED <<port, connected>>
    /\ WinReturns(OkUnit, <<>>, <<>>)
    /\ UNCHANGED <<transport, pure, key_install, config, command, timeout_duration,
                   windows_unused>>

\* execute_command_with_timeout(command, timeout): the connected check,
\* send_command, read_response, the parse of the response
WinExecute(cmd, t) ==
    /\ transport = "windows"
    /\ calls < MaxCalls
    /\ calls' = calls + 1
    /\ op' = "exec"
    /\ command' = cmd
    /\ timeout_duration' = t
    /\ IF ~connected
       THEN WinReturns(Err("SerialConnection",
                           "Not connected to serial device"), <<>>, <<>>)
       ELSE IF ~port
       THEN WinReturns(Err("SerialConnection", "Serial port not connected"),
                       <<>>, <<>>)
       ELSE \E written \in BOOLEAN :
               IF ~written
               THEN WinReturns(Err("SerialConnection", "write"), <<>>, <<>>)
               ELSE \E r \in ReadResults :
                       IF ~r.ok
                       THEN WinReturns(r, <<"command">>, <<Heard("exec", r)>>)
                       ELSE WinReturns(CommandOutput(WinStdout(r.stdout, cmd)),
                                       <<"command">>, <<Heard("exec", r)>>)
    /\ UNCHANGED <<transport, pure, key_install, lifecycle, config, port, connected,
                   windows_unused>>

\* execute_command(command): the 30 s default
WinExecuteCommand ==
    \E cmd \in Commands : WinExecute(cmd, DefaultTimeoutSecs)

\* execute_command_with_timeout(command, timeout)
WinExecuteCommandWithTimeout ==
    \E cmd \in Commands, t \in CallerTimeouts : WinExecute(cmd, t)

\* the body of upload_file and of download_file
WinTransfer(name, msg) ==
    /\ transport = "windows"
    /\ calls < MaxCalls
    /\ calls' = calls + 1
    /\ op' = name
    /\ WinReturns(Err("Unsupported", msg), <<>>, <<>>)
    /\ UNCHANGED <<transport, pure, key_install, lifecycle, config, port, connected,
                   command, timeout_duration, windows_unused>>

\* upload_file(_local_path, _remote_path)
WinUploadFile ==
    WinTransfer("upload_file",
                "File upload not supported via serial communication")

\* download_file(_remote_path, _local_path)
WinDownloadFile ==
    WinTransfer("download_file",
                "File download not supported via serial communication")

\* WindowsSerialChannel::from_channel_config: no port, not connected
InitWin ==
    /\ transport = "windows"
    /\ config \in Configs
    /\ ssh_key_path = None
    /\ key_files = {}
    /\ New

NextWin ==
    \/ WinConnect
    \/ WinDisconnect
    \/ WinExecuteCommand
    \/ WinExecuteCommandWithTimeout

SpecWin == InitWin /\ [][NextWin]_vars

(***************************************************************************)
(* The provided methods of trait CommunicationChannel, as a channel that   *)
(* overrides neither of them has them                                      *)
(***************************************************************************)
\* the fields of the serial and SSH channels, which such a channel lacks
default_unused == <<config, port, connected, logged_in, pc, command,
                    timeout_duration, line_ending, buffer, stdout,
                    command_echo_seen, elapsed, wire, ghost, ssh>>

\* the default body of upload_file and of download_file
DefaultTransfer(name, msg) ==
    /\ transport = "default"
    /\ calls < MaxCalls
    /\ calls' = calls + 1
    /\ op' = name
    /\ result' = Err("Unsupported", msg)
    /\ UNCHANGED <<transport, pure, key_install, lifecycle, default_unused>>

\* CommunicationChannel::upload_file
DefaultUploadFile ==
    DefaultTransfer("upload_file",
        "File upload not supported by this communication channel")

\* CommunicationChannel::download_file
DefaultDownloadFile ==
    DefaultTransfer("download_file",
        "File download not supported by this communication channel")

\* a channel with the provided methods only
InitDefault ==
    /\ transport = "default"
    /\ config = NoSerialConfig
    /\ ssh_key_path = None
    /\ key_files = {}
    /\ New

(***************************************************************************)
(* The channels without file transfer: both serial channels with all their *)
(* methods, and the provided methods of the trait                          *)
(***************************************************************************)
InitSerials ==
    \/ Init
    \/ InitWin
    \/ InitDefault

NextSerials ==
    \/ Next
    \/ SerialUploadFile
    \/ SerialDownloadFile
    \/ NextWin
    \/ WinUploadFile
    \/ WinDownloadFile
    \/ DefaultUploadFile
    \/ DefaultDownloadFile

SpecSerials == InitSerials /\ [][NextSerials]_vars

(***************************************************************************)
(* The three implementations of CommunicationChannel: a channel is one of  *)
(* them from its construction on                                           *)
(***************************************************************************)
InitChannels ==
    \/ Init
    \/ InitSsh /\ transport = "ssh"
    \/ InitWin

NextChannels ==
    \/ Next
    \/ NextSshChannel
    \/ NextWin

SpecChannels == InitChannels /\ [][NextChannels]_vars

(***************************************************************************)
(* strip_ansi_codes on its own: a text is stripped, and the result is      *)
(* stripped once more                                                      *)
(***************************************************************************)
\* longest text stripped
MaxText == 5

\* ESC, the bracket, a letter, a digit
AnsiAlphabet == {ESC, "[", "m", "1"}

RECURSIVE AnsiTexts(_)
\* all texts over AnsiAlphabet of length n
AnsiTexts(n) ==
    IF n = 0 THEN {<<>>}
    ELSE {Append(t, ch) : t \in AnsiTexts(n - 1), ch \in AnsiAlphabet}

\* the variables of the channels and of the key installer, which a free
\* function leaves alone
channels == <<config, port, connected, logged_in, pc, command,
              timeout_duration, line_ending, buffer, stdout,
              command_echo_seen, elapsed, wire, result, ghost, calls,
              transport, lifecycle, ssh, key_install>>

\* no channel exists
NoChannel ==
    /\ transport = "none"
    /\ lifecycle = "none"
    /\ config = NoSerialConfig
    /\ ssh_key_path = None
    /\ key_files = {}
    /\ NoCalls
    /\ NoInstall

\* `let clean_text = strip_ansi_codes(&raw_text)`
StripAnsiCodes ==
    /\ transport = "none"
    /\ op = "none"
    /\ op' = "strip_ansi_codes"
    /\ stripped_text' = strip_ansi_codes(raw_text)
    /\ UNCHANGED <<channels, raw_text, test_names, machine_config,
                   filtered_tests>>

\* strip_ansi_codes applied to what it returned
StripAgain ==
    /\ transport = "none"
    /\ op = "strip_ansi_codes"
    /\ op' = "strip_ansi_codes_again"
    /\ raw_text' = stripped_text
    /\ stripped_text' = strip_ansi_codes(stripped_text)
    /\ UNCHANGED <<channels, test_names, machine_config, filtered_tests>>

InitStrip ==
    /\ NoChannel
    /\ raw_text \in UNION {AnsiTexts(n) : n \in 0..MaxText}
    /\ stripped_text = <<>>
    /\ test_names = <<>>
    /\ machine_config = None
    /\ filtered_tests = <<>>

NextStrip ==
    \/ StripAnsiCodes
    \/ StripAgain

SpecStrip == InitStrip /\ [][NextStrip]_vars

(***************************************************************************)
(* machine.rs: filter_tests_for_machine                                    *)
(***************************************************************************)
\* longest list of test ids filtered
MaxTests == 2

\* the array handed to HashMap::from, in source order
CompatibilityRules ==
    << <<"hardware_001", <<"edgelock-enclave">> >>,
       <<"hardware_002", <<"trustzone", "op-tee">> >>,
       <<"hardware_003", <<"secure-boot">> >>,
       <<"hardware_004", <<"caam">> >>,
       <<"hardware_005", <<"caam">> >>,
       <<"hardware_006", <<"pcf2131-rtc">> >>,
       <<"boot_001", <<"secure-boot">> >>,
       <<"boot_005", <<"op-tee">> >>,
       <<"boot_006", <<"tf-a">> >>,
       <<"runtime_009", <<"pcf2131-rtc">> >>,
       <<"hardware_001", <<"imx93">> >>,
       <<"boot_hab_verification", <<"imx8mm", "hab">> >> >>

\* HashMap::from(array).get(key): the array is inserted pair by pair, so a
\* key listed twice keeps the value of its last pair
HashMapGet(array, key) ==
    LET hits == {i \in 1..Len(array) : array[i][1] = key}
    IN  IF hits = {} THEN None
        ELSE Some(array[CHOOSE i \in hits : \A j \in hits : j <= i][2])

\* is_test_compatible_with_machine(test_name, machine_features)
is_test_compatible_with_machine(test_name, machine_features) ==
    LET required_features == HashMapGet(CompatibilityRules, test_name)
    IN  IF required_features # None
        THEN \A required_feature \in Range(Unwrap(required_features)) :
                required_feature \in machine_features
        ELSE TRUE

\* filter_tests_for_machine(test_names, machine_config)
filter_tests_for_machine(names, machine) ==
    IF machine = None THEN names
    ELSE SelectSeq(names,
                   LAMBDA test_name :
                      is_test_compatible_with_machine(test_name,
                                                      Unwrap(machine)))

\* test ids: one listed twice in the rules, one listed once, one not listed
TestIds == {"hardware_001", "hardware_002", "runtime_001"}

\* the hardware features the rules of TestIds name
Features == {"edgelock-enclave", "imx93", "trustzone", "op-tee"}

RECURSIVE TestLists(_)
\* all lists of n test ids
TestLists(n) ==
    IF n = 0 THEN {<<>>}
    ELSE {Append(l, id) : l \in TestLists(n - 1), id \in TestIds}

\* `filter_tests_for_machine(&all_tests, &machine_config)`
FilterTests ==
    /\ transport = "none"
    /\ op = "none"
    /\ op' = "filter_tests_for_machine"
    /\ filtered_tests' = filter_tests_for_machine(test_names, machine_config)
    /\ UNCHANGED <<channels, raw_text, stripped_text, test_names,
                   machine_config>>

\* a list of test ids and a machine configuration, or none
InitMachine ==
    /\ NoChannel
    /\ raw_text = <<>>
    /\ stripped_text = <<>>
    /\ test_names \in UNION {TestLists(n) : n \in 0..MaxTests}
    /\ machine_config \in {None} \cup {Some(fs) : fs \in SUBSET Features}
    /\ filtered_tests = <<>>

NextMachine == FilterTests

SpecMachine == InitMachine /\ [][NextMachine]_vars

(***************************************************************************)
(* from_channel_config of the three channels, and the channel it builds    *)
(***************************************************************************)
\* the variables from_channel_config neither reads nor sets
unbuilt_unused == <<transport, pure, key_install, config, ssh_key_path, key_files, pc, op,
                    command, timeout_duration, line_ending, buffer, stdout,
                    command_echo_seen, elapsed, wire, ghost, calls, ssh_log,
                    remote>>

\* a `match` with a `..` pattern in place of the variant's name
MatchesAny(variant, channel_type) == TRUE

\* `match config { ChannelConfig::<variant> { .. } => .., _ => .. }`
Matches(variant, channel_type) == channel_type = variant

\* from_channel_config of the channel `t`, which takes `variant` alone
FromChannelConfig(t, variant, msg) ==
    /\ transport = t
    /\ lifecycle = "unbuilt"
    /\ IF Matches(variant, config.channel_type)
       THEN /\ lifecycle' = "new"
            /\ result' = OkSelf
       ELSE /\ lifecycle' = "none"
            /\ result' = Err("Config", msg)
    /\ port' = FALSE
    /\ connected' = FALSE
    /\ logged_in' = FALSE
    /\ session' = None
    /\ UNCHANGED unbuilt_unused

\* SerialChannel::from_channel_config
SerialFromChannelConfig ==
    FromChannelConfig("serial", "serial", "Invalid channel config for Serial")

\* SshChannel::from_channel_config
SshFromChannelConfig ==
    FromChannelConfig("ssh", "ssh", "Invalid channel config for SSH")

\* WindowsSerialChannel::from_channel_config
WinFromChannelConfig ==
    FromChannelConfig("windows", "serial",
                      "WindowsSerialChannel requires Serial configuration")

\* a ChannelConfig of either variant and the constructor about to get it
InitBuild ==
    /\ transport \in {"serial", "ssh", "windows"}
    /\ config \in Configs \cup {NoSerialConfig}
    /\ IF config.channel_type = "ssh"
       THEN /\ ssh_key_path \in {None, Some(CustomKey)}
            /\ key_files \in SUBSET KeyFiles
       ELSE /\ ssh_key_path = None
            /\ key_files = {}
    /\ lifecycle = "unbuilt"
    /\ NoCalls
    /\ NoPureCall
    /\ NoInstall

\* the methods are those of the channel built, if one was
NextBuild ==
    \/ SerialFromChannelConfig
    \/ SshFromChannelConfig
    \/ WinFromChannelConfig
    \/ /\ lifecycle \notin {"unbuilt", "none"}
       /\ NextChannels

SpecBuild == InitBuild /\ [][NextBuild]_vars

(***************************************************************************)
(* SshKeyInstaller::install_public_key over a connected channel            *)
(***************************************************************************)
\* the commands of install_public_key in the order it runs them: mkdir -p
\* ~/.ssh, chmod 700 ~/.ssh, echo '<key>' >> authorized_keys, chmod 600
\* authorized_keys, chown -R ~/.ssh
InstallCommands == <<"mkdir", "chmod_dir", "append", "chmod_keys", "chown">>

\* the exit statuses a command can end with on the target
ExitStatuses == {0, 1}

\* what a serial channel prints back for a command besides its echo
InstallOutputs == {<<>>, <<"e">>}

\* what channel.execute_command(command) returns for a command that ended
\* with `status` on the target: an SshChannel reports stderr and the exit
\* status of the remote end, both serial channels return the CommandOutput
\* literal whatever the status was; every channel can fail
ChannelReturns(status) ==
    IF transport = "ssh"
    THEN {ExecResult(SshDefaultTimeoutSecs, r) :
              r \in {x \in Remotes : x.exit_code = status}}
    ELSE {CommandOutput(out) : out \in InstallOutputs}
         \cup {Err("CommandExecution", "timeout")}

\* the place of a command in InstallCommands
InstallIndex(name) ==
    CHOOSE i \in 1..Len(InstallCommands) : InstallCommands[i] = name

\* `if result.exit_code != 0` after the append returns the error, after the
\* other commands it warns and goes on
AppendRefused(name, r) == name = "append" /\ r.exit_code # 0

\* install_public_key(channel, public_key): the call
InstallPublicKey ==
    /\ pc = "idle"
    /\ connected
    /\ calls < MaxCalls
    /\ calls' = calls + 1
    /\ op' = "install_public_key"
    /\ pc' = InstallCommands[1]
    /\ key_install' = <<>>
    /\ result' = NoResult
    /\ UNCHANGED <<transport, pure, lifecycle, ssh, chan, command,
                   timeout_duration, line_ending, buffer, stdout,
                   command_echo_seen, elapsed, wire, ghost>>

\* `let result = channel.execute_command(&..).await?;` and the test of
\* result.exit_code that follows it
RunInstallCommand ==
    /\ op = "install_public_key"
    /\ pc \in Range(InstallCommands)
    /\ \E status \in ExitStatuses : \E r \in ChannelReturns(status) :
         /\ key_install' = Append(key_install, [command  |-> pc,
                                                status   |-> status,
                                                returned |-> r])
         /\ IF ~r.ok
            THEN /\ pc' = "idle"
                 /\ result' = r
            ELSE IF AppendRefused(pc, r)
            THEN /\ pc' = "idle"
                 /\ result' = Err("Communication",
                                  "Failed to add public key to authorized_keys")
            ELSE IF InstallIndex(pc) = Len(InstallCommands)
            THEN /\ pc' = "idle"
                 /\ result' = OkUnit
            ELSE /\ pc' = InstallCommands[InstallIndex(pc) + 1]
                 /\ UNCHANGED result
    /\ UNCHANGED <<transport, pure, lifecycle, ssh, chan, op, command,
                   timeout_duration, line_ending, buffer, stdout,
                   command_echo_seen, elapsed, wire, ghost, calls>>

\* a connected channel of one of the three implementations, handed to the
\* installer
InitInstall ==
    /\ transport \in {"serial", "ssh", "windows"}
    /\ config \in IF transport = "ssh" THEN {NoSerialConfig} ELSE Configs
    /\ port = (transport # "ssh")
    /\ connected = TRUE
    /\ logged_in = (transport = "serial")
    /\ pc = "idle"
    /\ op = "connect"
    /\ command = <<>>
    /\ timeout_duration = 0
    /\ line_ending = 1
    /\ buffer = <<>>
    /\ stdout = <<>>
    /\ command_echo_seen = FALSE
    /\ elapsed = 0
    /\ rx = <<>>
    /\ script = <<>>
    /\ transcript = <<>>
    /\ result = OkUnit
    /\ tx = <<>>
    /\ waits = <<>>
    /\ login = "none"
    /\ reads = 0
    /\ calls = MaxCalls - 1
    /\ spoken = 0
    /\ lifecycle = "connect"
    /\ ssh_key_path = None
    /\ key_files = {}
    /\ session = IF transport = "ssh"
                 THEN Some([authenticated |-> TRUE]) ELSE None
    /\ ssh_log = <<>>
    /\ remote = NoRemote
    /\ NoPureCall
    /\ NoInstall

NextInstall ==
    \/ InstallPublicKey
    \/ RunInstallCommand

SpecInstall == InitInstall /\ [][NextInstall]_vars

(***************************************************************************)
(* Properties of the serial channel                                        *)
(***************************************************************************)
Sent(what) == \E i \in 1..Len(tx) : tx[i] = what

LastWait == waits[Len(waits)]

\* C1: execute_command_with_timeout writes the command, and starts to read
\* its output, only after login_if_needed returned Ok with logged_in set; if
\* login_if_needed returned an error the call has returned that error, the
\* command was not written and no output was read.
C1_CommandOnlyAfterLogin ==
    /\ (pc \in {"send_command", "read_output"} \/ Sent("command"))
          => /\ op = "exec"
             /\ logged_in
             /\ login \in {"ok", "skipped"}
    /\ (op = "exec" /\ login = "err")
          => /\ pc = "idle"
             /\ result.kind = "error"
             /\ result.error = "SerialConnection"
             /\ ~Sent("command")
             /\ command_echo_seen = FALSE
             /\ stdout = <<>>

\* the login automation ran inside execute_command_with_timeout, returned
\* Ok, and the command was written after it
C1_Witness ==
    /\ op = "exec"
    /\ login = "ok"
    /\ tx = <<"ctrl_c", "crlf", "lf", "cr", "command">>

\* execute_command_with_timeout returned the error of the login automation
C1_ErrorWitness ==
    /\ op = "exec"
    /\ login = "err"
    /\ pc = "idle"

\* C2: logged_in is sticky: from a state with logged_in set, no step writes
\* anything but a command (no wake-up burst, no username, no password), and
\* no prompt wait starts, until disconnect() clears the flag.
C2_LoggedInSticky ==
    [][logged_in =>
          /\ (tx' = tx \/ tx' = <<>> \/ tx' = Append(tx, "command"))
          /\ pc' \notin {"ctrl_c", "line_ending", "try_read", "send_username",
                         "send_password"} \cup WaitPcs
          /\ (waits' = waits \/ waits' = <<>>)]_vars

\* a command was executed on a logged-in channel: only the command was written
C2_Witness ==
    /\ logged_in
    /\ op = "exec"
    /\ login = "skipped"
    /\ tx = <<"command">>
    /\ pc = "idle"

\* the call in progress or last finished is a command whose read loop ended
\* in the timeout
TimedOut ==
    /\ op = "exec"
    /\ pc = "idle"
    /\ login \in {"ok", "skipped"}
    /\ result.kind = "error"
    /\ result.msg = "timeout"

\* C3: a command whose completion pattern never arrives is given up when the
\* caller's timeout_duration has elapsed, with a CommandExecution timeout
\* error; the bytes read so far are dropped and no CommandOutput is built
\* from them: a CommandOutput is returned only by a read after which the
\* stripped buffer holds a completion pattern.
C3_TimeoutIsCallersAndDiscards ==
    /\ [](TimedOut =>
             /\ result.error = "CommandExecution"
             /\ elapsed = timeout_duration
             /\ result.stdout = <<>>
             /\ buffer = <<>>
             /\ stdout = <<>>)
    /\ [][result'.kind = "output" /\ result.kind # "output" =>
             /\ pc = "read_output"
             /\ elapsed <= timeout_duration
             /\ HasPrompt(strip_ansi_codes(buffer \o rx), EffectivePrompt)]_vars

\* a command given a timeout other than the default timed out after some
\* bytes without a completion pattern had been read
C3_Witness ==
    /\ TimedOut
    /\ timeout_duration = 1
    /\ reads > 0

\* C6: every CommandOutput a serial command returns has an empty stderr and
\* exit code 0, whatever its stdout.
C6_StderrEmptyExitZero ==
    result.kind = "output" => (result.stderr = <<>> /\ result.exit_code = 0)

\* a command completed with some output
C6_Witness ==
    /\ op = "exec"
    /\ pc = "idle"
    /\ result.kind = "output"
    /\ result.stdout # <<>>

\* C7: with a username and a login prompt configured, a login-prompt wait
\* that times out is forgiven: login_if_needed returns Ok with logged_in
\* set, connect() succeeds, and neither username nor password is sent.
C7_LoginPromptMissForgiven ==
    (waits # <<>> /\ LastWait = <<"wait_login", "timeout">>) =>
        /\ config.username # None /\ config.login_prompt # None
        /\ login = "ok"
        /\ logged_in
        /\ ~Sent("username")
        /\ ~Sent("password")
        /\ (op = "connect" => pc = "idle" /\ result = OkUnit)

\* connect() succeeded after the login-prompt wait timed out
C7_Witness ==
    /\ waits # <<>>
    /\ LastWait = <<"wait_login", "timeout">>
    /\ op = "connect"
    /\ pc = "idle"
    /\ result = OkUnit
    /\ logged_in

\* C8: once the username (and the password, when configured) has been
\* sent, a timeout of the final shell-prompt wait does not fail the login:
\* login_if_needed returns Ok with logged_in set.
C8_ShellPromptMissForgiven ==
    (waits # <<>> /\ LastWait = <<"wait_shell_2", "timeout">>) =>
        /\ login = "ok"
        /\ logged_in
        /\ (op = "connect" => pc = "idle" /\ result = OkUnit)

\* connect() succeeded although the shell prompt did not follow the
\* username and the password
C8_Witness ==
    /\ waits # <<>>
    /\ LastWait = <<"wait_shell_2", "timeout">>
    /\ Sent("username")
    /\ Sent("password")
    /\ op = "connect"
    /\ result = OkUnit
    /\ logged_in

\* C9: a port read error during the login-prompt wait or the final
\* shell-prompt wait makes login_if_needed fail instead of marking the
\* session logged in.
C9_ReadErrorFailsLogin ==
    (waits # <<>> /\ LastWait \in {<<"wait_login", "read_error">>,
                                   <<"wait_shell_2", "read_error">>}) =>
        /\ login = "err"
        /\ result.kind = "error"

\* C10: with no username configured no login is attempted: nothing but the
\* wake-up burst (and commands) is written, no prompt wait is made, the
\* login automation ends with logged_in set unless a write of the burst
\* failed, and connect() fails only if the port cannot be opened or a write
\* of the burst fails.
C10_NoUsernameNoLogin ==
    config.username = None =>
        /\ ~Sent("username")
        /\ ~Sent("password")
        /\ waits = <<>>
        /\ pc \notin WaitPcs \cup {"send_username", "send_password"}
        /\ (login = "ok" => logged_in)
        /\ (login = "err" => result.msg = "write")
        /\ (op = "connect" /\ pc = "idle" /\ result.kind = "error"
               => result.msg \in {"open", "write"})

\* connect() succeeded right after the whole wake-up burst, no username
\* being configured
C10_Witness ==
    /\ config.username = None
    /\ config.login_prompt # None
    /\ op = "connect"
    /\ pc = "idle"
    /\ result = OkUnit
    /\ login = "ok"
    /\ logged_in
    /\ tx = <<"ctrl_c", "crlf", "lf", "cr">>

\* of the writes of the running/last call, the first n are the first n of
\* the burst and the others are the username, the password or the command
BurstThenRest(n) ==
    /\ n <= Len(tx)
    /\ SubSeq(tx, 1, n) = SubSeq(Burst, 1, n)
    /\ \A i \in (n + 1)..Len(tx) : tx[i] \in {"username", "password", "command"}

\* a non-blocking read of the burst returns text with '$' or '#' in it
BurstReadSeesShell ==
    /\ pc = "try_read"
    /\ rx # <<>>
    /\ rx' = <<>>
    /\ \/ Contains(strip_ansi_codes(rx), <<"$">>)
       \/ Contains(strip_ansi_codes(rx), <<"#">>)

\* a write of the login automation is made by this step
LoginWrites ==
    /\ tx' # tx
    /\ tx' # <<>>
    /\ tx'[Len(tx')] # "command"

\* C11: the wake-up burst writes Ctrl-C first and then "\r\n", "\n", "\r" in
\* that order, with a non-blocking read attempted after each line ending;
\* as soon as such a read returns text containing '$' or '#' the channel is
\* logged in, login_if_needed returns Ok and none of the remaining line
\* endings, the username or the password is written.
C11_WakeUpBurst ==
    /\ [](\E n \in 0..Len(Burst) :
            /\ BurstThenRest(n)
            /\ (n < Len(Burst) => ~Sent("username") /\ ~Sent("password")))
    /\ [][BurstReadSeesShell =>
            /\ logged_in'
            /\ login' = "ok"
            /\ tx' = tx
            /\ pc' = IF op = "connect" THEN "idle" ELSE "send_command"]_vars
    /\ [][LoginWrites =>
            /\ login = "running"
            /\ tx' = Append(tx, tx'[Len(tx')])
            /\ (tx'[Len(tx')] \in {"crlf", "lf", "cr"} => pc' = "try_read")
            /\ (pc = "line_ending" /\ line_ending > 1 =>
                   tx[Len(tx)] = LineEndings[line_ending - 1])]_vars

\* connect() returned Ok after the read that followed the first line ending
\* showed a shell prompt, although a username and a login prompt are
\* configured
C11_Witness ==
    /\ config.username # None
    /\ config.login_prompt # None
    /\ op = "connect"
    /\ pc = "idle"
    /\ result = OkUnit
    /\ logged_in
    /\ login = "ok"
    /\ tx = <<"ctrl_c", "crlf">>

\* C13: disconnect() called in any state of the serial channel (never
\* connected, connected, after a failed connect, right after a disconnect)
\* returns Ok and leaves connected = false, logged_in = false and no port.
C13_DisconnectAlwaysSafe ==
    [][op' = "disconnect" /\ calls' = calls + 1 =>
            /\ pc = "idle"
            /\ pc' = "idle"
            /\ result' = OkUnit
            /\ ~connected'
            /\ ~logged_in'
            /\ ~port']_vars

\* disconnect() has returned Ok as the last of MaxCalls calls on the channel,
\* which it leaves without a port, not connected and not logged in
C13_Witness ==
    /\ op = "disconnect"
    /\ calls = MaxCalls
    /\ lifecycle = "disconnect"
    /\ result = OkUnit
    /\ ~connected /\ ~logged_in /\ ~port

(***************************************************************************)
(* Properties of the output extraction                                     *)
(***************************************************************************)
\* a command has returned a CommandOutput after reading the whole response
Extracted ==
    /\ op = "exec"
    /\ pc = "idle"
    /\ result.kind = "output"
    /\ script = <<>>

\* what the read loop makes of the whole response taken in a single read
WholeAtOnce ==
    ReadLoopStep(transcript, command, EffectivePrompt, <<>>, FALSE)

\* the response is the echo line of the command, then `out`, then the
\* configured prompt, and `out` holds no completion pattern
EchoOutputPrompt(out) ==
    /\ transcript = command \o <<LF>> \o out \o EffectivePrompt
    /\ ~Contains(out, <<"$", SP>>)
    /\ ~Contains(out, <<"#", SP>>)
    /\ ~Contains(out, EffectivePrompt)

\* the part of the response between the echo line and the prompt
OutputPart ==
    SubSeq(transcript, Len(command) + 2,
           Len(transcript) - Len(EffectivePrompt))

\* C4: when the whole response is the echo line, output free of completion
\* patterns and the configured prompt, the returned stdout is exactly that
\* output, trimmed.
C4_EchoSeparation ==
    (Extracted /\ reads = 1 /\ Len(transcript) >= Len(command) + 1 + Len(EffectivePrompt)
               /\ EchoOutputPrompt(OutputPart))
        => result.stdout = Trim(OutputPart)

\* C5: for shell prompt "$ " the returned stdout is the same for every way
\* of splitting the response into reads: it is what a single read of the
\* whole response yields.
C5_ChunkingInvariant ==
    (Extracted /\ EffectivePrompt = DollarPrompt /\ WholeAtOnce.done)
        => result.stdout = WholeAtOnce.stdout

(***************************************************************************)
(* Properties of the SSH channel and the SSH client                        *)
(***************************************************************************)
\* the calls of the running/last call to the library function `name`
CallsTo(name) == SelectSeq(ssh_log, LAMBDA c : c[1] = name)

KeyAttempts == CallsTo("userauth_pubkey_file")

PasswordAttempts == CallsTo("userauth_password")

\* the set-up of the last connect() got through the handshake
HandshakeDone == Call("handshake", "", "ok") \in Range(ssh_log)

\* the place of a key path in the conventional order
Position(path) == CHOOSE p \in 1..Len(DefaultKeyPaths) : DefaultKeyPaths[p] = path

\* C14: after any call to SshChannel::disconnect(), also one whose remote
\* session-disconnect request fails, the channel holds no session and
\* is_connected() is false.
C14_DisconnectClearsSession ==
    transport = "ssh" /\ op = "disconnect" =>
        /\ session = None
        /\ ~connected

\* C15: with a key path configured, once the authentication with that key
\* has failed no other key is tried: the connect() makes exactly one key
\* attempt, with the configured key, and then exactly one password attempt.
C15_ConfiguredKeyOnly ==
    (/\ transport = "ssh"
     /\ op = "connect"
     /\ ssh_key_path # None
     /\ \E i \in 1..Len(KeyAttempts) : KeyAttempts[i][3] = "err")
    => /\ KeyAttempts = <<Call("userauth_pubkey_file", Unwrap(ssh_key_path),
                               "err")>>
       /\ Len(PasswordAttempts) = 1
       /\ \E i \in 2..Len(ssh_log) :
             /\ ssh_log[i - 1] = KeyAttempts[1]
             /\ ssh_log[i] = PasswordAttempts[1]

\* the configured key was refused although other key files exist, and the
\* password then opened the session
C15_Witness ==
    /\ transport = "ssh"
    /\ op = "connect"
    /\ ssh_key_path = Some(CustomKey)
    /\ {CustomKey, "~/.ssh/id_ed25519", "~/.ssh/id_rsa"} \subseteq key_files
    /\ KeyAttempts = <<Call("userauth_pubkey_file", CustomKey, "err")>>
    /\ PasswordAttempts = <<Call("userauth_password", "", "ok")>>
    /\ result = OkUnit
    /\ connected

\* C16: with no key path configured, connect() tries the key files that
\* exist in the fixed order of the conventional locations (the tool's own
\* key, ed25519, RSA, ECDSA, DSA), each at most once, and stops at the first
\* that succeeds; the password is tried if and only if no key attempt
\* succeeded.
C16_ConventionalKeysInOrder ==
    (transport = "ssh" /\ op = "connect" /\ ssh_key_path = None) =>
        /\ \A i \in 1..Len(KeyAttempts) :
              /\ KeyAttempts[i][2] \in Range(DefaultKeyPaths) \cap key_files
              /\ (KeyAttempts[i][3] = "ok" => i = Len(KeyAttempts))
              /\ \A j \in 1..Len(KeyAttempts) :
                    i < j => Position(KeyAttempts[i][2])
                                < Position(KeyAttempts[j][2])
        /\ Len(PasswordAttempts) <= 1
        /\ (~HandshakeDone => KeyAttempts = <<>> /\ PasswordAttempts = <<>>)
        /\ (HandshakeDone =>
              /\ (PasswordAttempts # <<>>
                    <=> \A i \in 1..Len(KeyAttempts) : KeyAttempts[i][3] # "ok")
              /\ \A p \in 1..Len(DefaultKeyPaths) :
                    (/\ DefaultKeyPaths[p] \in key_files
                     /\ \A i \in 1..Len(KeyAttempts) :
                           KeyAttempts[i][3] = "ok"
                              => p <= Position(KeyAttempts[i][2]))
                    => \E i \in 1..Len(KeyAttempts) :
                          KeyAttempts[i][2] = DefaultKeyPaths[p])

\* the ed25519 key was refused, the RSA key accepted; the ECDSA key, which
\* exists too, and the password were not tried
C16_Witness ==
    /\ transport = "ssh"
    /\ op = "connect"
    /\ ssh_key_path = None
    /\ "~/.ssh/id_ecdsa" \in key_files
    /\ KeyAttempts = <<Call("userauth_pubkey_file", "~/.ssh/id_ed25519", "err"),
                       Call("userauth_pubkey_file", "~/.ssh/id_rsa", "ok")>>
    /\ PasswordAttempts = <<>>
    /\ result = OkUnit

\* the last connect() ended without a session that counts as authenticated
NotAuthenticated ==
    /\ HandshakeDone
    /\ Call("authenticated", "", "true") \notin Range(ssh_log)

\* C17: a connect() in which neither the keys nor the password establish an
\* authenticated session fails with an authentication error and stores no
\* session; is_connected() is true only while the channel holds a session
\* that authenticated.
C17_ConnectedOnlyIfAuthenticated ==
    /\ [](transport = "ssh" =>
            /\ (connected => session # None /\ Unwrap(session).authenticated)
            /\ (op = "connect" /\ NotAuthenticated =>
                  ~result.ok /\ result.error = "SshAuth"))
    /\ [][transport = "ssh" /\ op' = "connect" /\ calls' = calls + 1 =>
            IF result'.ok
            THEN /\ connected'
                 /\ session' # None
                 /\ Call("authenticated", "", "true") \in Range(ssh_log')
            ELSE /\ session' = session
                 /\ connected' = connected]_vars

\* the server took the password, the session still does not count as
\* authenticated: connect() failed and the channel is as it was made
C17_Witness ==
    /\ transport = "ssh"
    /\ op = "connect"
    /\ PasswordAttempts = <<Call("userauth_password", "", "ok")>>
    /\ Call("authenticated", "", "false") \in Range(ssh_log)
    /\ result = Err("SshAuth", "Authentication failed")
    /\ session = None
    /\ ~connected

\* a command ran on a session
CommandRan == op = "exec" /\ ssh_log # <<>>

\* C18: the timeout of an SSH command is advisory: whatever the timeout,
\* the exchange with the remote end is carried through and the CommandOutput
\* or the error returned is the one the remote end's behaviour gives, the
\* same for every timeout value.
C18_TimeoutAdvisory ==
    CommandRan =>
        /\ \A t \in SshTimeouts \cup {timeout_duration} :
              result = IF transport = "ssh" THEN ExecResult(t, remote)
                       ELSE ClientExecResult(t, remote)
        /\ SubSeq(ssh_log, 1, IF remote.fails = 0 THEN Len(ExecSteps)
                              ELSE remote.fails)
              = RunSteps(ExecSteps, remote.fails, 1)
        /\ (remote.fails = 0 => result.kind = "output")

\* a command that took 45 s under a timeout of 30 s returned its output
C18_Witness ==
    /\ CommandRan
    /\ transport = "ssh"
    /\ timeout_duration = 30
    /\ remote.duration = 45
    /\ result = SshCommandOutput(<<"h">>, <<"e">>, 1)

\* C19 as claimed: execute_command(cmd) is execute_command_with_timeout(cmd,
\* 30 s), the default timeout handed on being 30 seconds.
C19_DefaultThirtySeconds ==
    [][/\ SshExecuteCommand => SshExecuteCommand30
       /\ ClientExecuteCommand => ClientExecuteCommand30]_vars

\* C19 amended: execute_command(cmd) is execute_command_with_timeout(cmd,
\* 60 s), for the SSH channel and for the SSH client: the default timeout
\* handed on is 60 seconds.
C19_DefaultSixtySeconds ==
    [][/\ SshExecuteCommand =>
             /\ timeout_duration' = 60
             /\ \E cmd \in Commands : SshExecute(cmd, 60)
       /\ ClientExecuteCommand =>
             /\ timeout_duration' = 60
             /\ \E cmd \in Commands : ClientExecute(cmd, 60)]_vars

\* the client ran a command of 45 s under the default: it returned the
\* output and, 45 s being under the 60 s handed on, logged no warning
C19_Witness ==
    /\ transport = "ssh_client"
    /\ CommandRan
    /\ timeout_duration = 60
    /\ remote.duration = 45
    /\ result.kind = "output"
    /\ CallsTo("warn!") = <<>>

\* the steps of the transfer that ran last
TransferSteps == IF op = "upload_file" THEN UploadSteps ELSE DownloadSteps

\* C20: upload_file and download_file open the stream, copy the bytes and
\* then send EOF, wait for EOF, close and wait for the close, in that
\* order; a transfer that returns Ok has completed all four, and a step
\* that fails makes the transfer return its error with no later step made.
C20_TransferStepsInOrder ==
    (op \in {"upload_file", "download_file"} /\ ssh_log # <<>>) =>
        /\ Len(ssh_log) <= Len(TransferSteps)
        /\ \A i \in 1..Len(ssh_log) :
              /\ ssh_log[i][1] = TransferSteps[i]
              /\ (i < Len(ssh_log) => ssh_log[i][3] = "ok")
        /\ IF result.ok
           THEN /\ Len(ssh_log) = Len(TransferSteps)
                /\ ssh_log[Len(ssh_log)][3] = "ok"
                /\ SubSeq(ssh_log, Len(ssh_log) - 3, Len(ssh_log))
                     = <<Call("send_eof", "", "ok"), Call("wait_eof", "", "ok"),
                         Call("close", "", "ok"), Call("wait_close", "", "ok")>>
           ELSE /\ ssh_log[Len(ssh_log)][3] = "err"
                /\ result.msg = ssh_log[Len(ssh_log)][1]

\* an upload whose wait for EOF failed: it returned that error and neither
\* closed the stream nor waited for the close
C20_Witness ==
    /\ op = "upload_file"
    /\ result = Err("Communication", "wait_eof")
    /\ ssh_log[Len(ssh_log)] = Call("wait_eof", "", "err")
    /\ Len(ssh_log) = 7

(***************************************************************************)
(* Properties of all three channels                                        *)
(***************************************************************************)
\* this step is a call of execute_command or execute_command_with_timeout
CommandCalled == op' = "exec" /\ calls' = calls + 1

\* C12: execute_command and execute_command_with_timeout, called on a
\* channel on which connect() was never called or disconnect() has returned
\* Ok since, return an error without any transport I/O and without changing
\* the channel; a command returns output only on a channel on which
\* connect() was called after construction or after the last disconnect.
C12_NotConnectedNoCommand ==
    /\ [][CommandCalled /\ lifecycle # "connect" =>
            /\ pc' = "idle"
            /\ result'.kind = "error"
            /\ ~result'.ok
            /\ tx' = <<>>
            /\ reads' = 0
            /\ ssh_log' = <<>>
            /\ rx' = rx
            /\ UNCHANGED <<config, port, connected, logged_in, session,
                           ssh_key_path, lifecycle>>]_vars
    /\ [](op = "exec" /\ result.kind = "output" => lifecycle = "connect")

\* a command was refused on an SSH channel after connect() and disconnect()
C12_Witness ==
    /\ transport = "ssh"
    /\ calls = MaxCalls
    /\ op = "exec"
    /\ lifecycle = "disconnect"
    /\ session = None
    /\ ssh_log = <<>>
    /\ result = Err("Communication", "Not connected")

(***************************************************************************)
(* Properties of the channels without file transfer                        *)
(***************************************************************************)
\* this step is a call of upload_file or download_file
TransferCalled ==
    /\ op' \in {"upload_file", "download_file"}
    /\ calls' = calls + 1

\* C21: upload_file and download_file of a serial channel, in whatever state
\* it is, fail with the Unsupported error without any I/O and without a
\* change of port, connected or logged_in; so do the methods the trait
\* provides for a channel that does not override them.
C21_TransferUnsupported ==
    [][TransferCalled =>
            /\ ~result'.ok
            /\ result'.error = "Unsupported"
            /\ pc' = "idle"
            /\ tx' = <<>>
            /\ reads' = 0
            /\ waits' = <<>>
            /\ rx' = rx
            /\ UNCHANGED <<port, connected, logged_in, lifecycle>>]_vars

\* upload_file was refused on a serial channel that is connected and logged
\* in and has unread bytes waiting
C21_Witness ==
    /\ transport = "serial"
    /\ op = "upload_file"
    /\ connected /\ logged_in /\ port
    /\ rx # <<>>
    /\ result.error = "Unsupported"

(***************************************************************************)
(* Properties of the construction                                          *)
(***************************************************************************)
\* the variant from_channel_config was given is the one its channel takes
RightVariant ==
    \/ transport = "ssh" /\ config.channel_type = "ssh"
    \/ transport \in {"serial", "windows"} /\ config.channel_type = "serial"

\* C22: from_channel_config given the wrong ChannelConfig variant returns a
\* Config error and no channel (SshChannel takes Ssh alone, SerialChannel
\* and WindowsSerialChannel take Serial alone); the channel it builds from
\* the right variant is not connected, not logged in and has done no I/O.
C22_WrongVariantNoChannel ==
    /\ lifecycle = "none" =>
          /\ ~RightVariant
          /\ ~result.ok
          /\ result.error = "Config"
          /\ calls = 0
    /\ lifecycle \notin {"unbuilt", "none"} => RightVariant
    /\ lifecycle = "new" /\ calls = 0 =>
          /\ result = OkSelf
          /\ ~connected /\ ~logged_in /\ ~port
          /\ session = None
          /\ pc = "idle"
          /\ tx = <<>> /\ reads = 0 /\ ssh_log = <<>> /\ rx = <<>>

\* WindowsSerialChannel::from_channel_config has refused an Ssh config
C22_Witness ==
    /\ transport = "windows"
    /\ config.channel_type = "ssh"
    /\ ssh_key_path = Some(CustomKey)
    /\ lifecycle = "none"
    /\ result = Err("Config",
                    "WindowsSerialChannel requires Serial configuration")

(***************************************************************************)
(* Properties of strip_ansi_codes                                          *)
(***************************************************************************)
\* C23: ANSI stripping is idempotent: stripping a text that strip_ansi_codes
\* returned gives that text back, whatever text was stripped first.
C23_StripIdempotent ==
    op = "strip_ansi_codes_again" => stripped_text = raw_text

\* a text was stripped twice: the digit and the bracket that the first pass
\* left are what the second pass returned
C23_Witness ==
    /\ op = "strip_ansi_codes_again"
    /\ raw_text = <<"1", "[">>
    /\ stripped_text = <<"1", "[">>

\* ESC '[' with a letter somewhere after it
StartsSequence(x) ==
    /\ Len(x) >= 2
    /\ x[1] = ESC
    /\ x[2] = "["
    /\ \E i \in 3..Len(x) : IsAsciiAlphabetic(x[i])

RECURSIVE WithoutSequences(_)
\* x less its sequences ESC '[' .. first letter, every other character kept
WithoutSequences(x) ==
    IF x = <<>> THEN <<>>
    ELSE IF StartsSequence(x)
         THEN WithoutSequences(SkipSequence(SubSeq(x, 3, Len(x))))
         ELSE <<Head(x)>> \o WithoutSequences(Tail(x))

\* C24: strip_ansi_codes removes exactly the sequences from ESC '[' up to
\* and including the first ASCII letter; every character outside such a
\* sequence is in the result, unchanged and in its original order.
C24_RemovesExactlySequences ==
    op = "strip_ansi_codes" => stripped_text = WithoutSequences(raw_text)

(***************************************************************************)
(* Properties of the two serial channels side by side                      *)
(***************************************************************************)
\* the target sent nothing while the call ran: every wait of the serial
\* channel timed out, every read_response of the Windows channel returned
\* its "no response" error
SilentTarget ==
    /\ transport = "serial" =>
          /\ spoken = 0
          /\ \A i \in 1..Len(waits) : waits[i][2] = "timeout"
    /\ transport = "windows" =>
          \A i \in 1..Len(waits) :
             waits[i][2] = "Timeout: no response received"

\* the port was opened and took every write
PortWorked == result.msg \notin {"open", "write"}

\* C25: WindowsSerialChannel is the same state machine as SerialChannel:
\* same configuration and same target transcript give the same connect()
\* outcome.  For the transcript of a target that stays silent, behind a port
\* that works, that outcome is the Ok of SerialChannel, which forgives the
\* login prompt and the final shell prompt that did not come.
C25_SameConnectOutcome ==
    /\ transport \in {"serial", "windows"}
    /\ op = "connect"
    /\ pc = "idle"
    /\ calls = 1
    /\ SilentTarget
    /\ PortWorked
    => result = OkUnit

(***************************************************************************)
(* Properties of filter_tests_for_machine                                  *)
(***************************************************************************)
\* every feature that some rule lists for the test id is among `features`
HasEveryListedFeature(id, features) ==
    \A i \in 1..Len(CompatibilityRules) :
       CompatibilityRules[i][1] = id =>
          Range(CompatibilityRules[i][2]) \subseteq features

\* C26: filter_tests_for_machine returns, in input order, exactly the test
\* ids for which the machine has every feature the compatibility rules list
\* for the id (for hardware_001 both edgelock-enclave and imx93); an id
\* without a rule is kept, and without a machine configuration the input
\* comes back unchanged.
C26_FilterKeepsCompatible ==
    op = "filter_tests_for_machine" =>
       filtered_tests =
          IF machine_config = None THEN test_names
          ELSE SelectSeq(test_names,
                         LAMBDA id :
                            HasEveryListedFeature(id, Unwrap(machine_config)))

(***************************************************************************)
(* Properties of the login against a target that prints its login prompt   *)
(***************************************************************************)
\* the target has printed its login prompt and the channel has read it, no
\* read of a prompt wait having failed
LoginPromptRead ==
    /\ script = <<>>
    /\ rx = <<>>
    /\ \A i \in 1..Len(waits) : waits[i][2] # "read_error"

\* C27: with a username and a login prompt configured, when the target
\* prints the login prompt (and no shell prompt) at any moment between the
\* start of the wake-up burst and the end of the login-prompt wait, the
\* username is sent before logged_in becomes true, whichever read took the
\* bytes of the prompt: a wake-up read, the preliminary shell-prompt wait or
\* the login-prompt wait.
C27_LoginPromptAnswered ==
    calls = 1 /\ logged_in /\ LoginPromptRead => Sent("username")

(***************************************************************************)
(* Properties of the echo search                                           *)
(***************************************************************************)
\* the bytes of the response that the reads of the command have taken
Received ==
    SubSeq(transcript, 1, Len(transcript) - Len(script) - Len(rx))

\* a line whose trimmed text contains the trimmed command has been received
EchoLineReceived ==
    LET lines == Lines(strip_ansi_codes(Received))
    IN  \E i \in 1..Len(lines) : Contains(Trim(lines[i]), Trim(command))

\* C28: execute_command_with_timeout sets the echo-found flag, and can
\* return Ok, only after a line containing the command has been received;
\* until then it keeps waiting with an empty stdout, whatever other lines
\* have arrived.
C28_EchoBeforeOutput ==
    /\ pc = "read_output" /\ command_echo_seen => EchoLineReceived
    /\ pc = "read_output" /\ ~EchoLineReceived => stdout = <<>>
    /\ op = "exec" /\ pc = "idle" /\ result.kind = "output" =>
          EchoLineReceived

(***************************************************************************)
(* Properties of a command after an exchange that left bytes unread        *)
(***************************************************************************)
\* the lines of output in the target's answer: those between the echo and
\* the prompt
AnswerOutput ==
    JoinLines(SubSeq(Lines(transcript), 2, Len(Lines(transcript)) - 1))

\* C29: commands on one SerialChannel are isolated: the stdout returned for
\* a command holds only bytes the target produced after the command was
\* sent; bytes left unread by the login or by an earlier command are not in
\* the result of a later command and do not complete it.
C29_CommandsIsolated ==
    op = "exec" /\ pc = "idle" /\ result.kind = "output" =>
       /\ script # transcript
       /\ result.stdout = AnswerOutput

(***************************************************************************)
(* Properties of a failed connect                                          *)
(***************************************************************************)
\* C30: when connect() returns an error, whether from opening the port or
\* session, from authentication or from the login, the channel is left not
\* connected and keeps no port and no session.
C30_FailedConnectLeavesNothing ==
    op = "connect" /\ pc = "idle" /\ ~result.ok =>
       /\ ~connected
       /\ ~port
       /\ session = None

(***************************************************************************)
(* Properties of the username and password exchange                        *)
(***************************************************************************)
\* the prompt wait `stage` of this call ended with `outcome`
Waited(stage, outcome) ==
    \E i \in 1..Len(waits) : waits[i] = <<stage, outcome>>

\* the login automation returned the error of a failed write
WriteFailed ==
    /\ login = "err"
    /\ result.kind = "error"
    /\ result.msg = "write"

\* C31: in the serial login, once the login-prompt wait has found the login
\* prompt the username is sent; the password is sent only if a password
\* prompt and a password are both configured and only after the
\* password-prompt wait, made after the username was sent, has found the
\* prompt; if that wait times out the login fails with an error, the
\* password is not sent and logged_in stays false.
C31_UsernameThenPassword ==
    /\ Waited("wait_login", "found") =>
          \/ pc = "send_username"
          \/ Sent("username")
          \/ WriteFailed
    /\ Sent("password") =>
          /\ config.password_prompt # None
          /\ config.password # None
          /\ Waited("wait_password", "found")
          /\ \E i, j \in 1..Len(tx) :
                i < j /\ tx[i] = "username" /\ tx[j] = "password"
    /\ (pc = "wait_password" \/ Waited("wait_password", "found")) =>
          Sent("username")
    /\ Waited("wait_password", "timeout") =>
          /\ LastWait = <<"wait_password", "timeout">>
          /\ pc = "idle"
          /\ login = "err"
          /\ result.kind = "error"
          /\ result.error = "SerialConnection"
          /\ ~Sent("password")
          /\ ~logged_in

\* connect() failed because the password prompt did not arrive in time
C31_Witness ==
    /\ op = "connect"
    /\ pc = "idle"
    /\ Sent("username")
    /\ Waited("wait_password", "timeout")
    /\ ~result.ok

(***************************************************************************)
(* Properties of the completion test                                       *)
(***************************************************************************)
\* the stripped buffer of the read loop holds a completion pattern
BufferHasPrompt ==
    LET clean_text == strip_ansi_codes(buffer)
    IN  \/ Contains(clean_text, EffectivePrompt)
        \/ Contains(clean_text, <<"$", SP>>)
        \/ Contains(clean_text, <<"#", SP>>)

\* the last read found the echo of the command in the last line received
\* and took the `continue` of the echo search
EchoInLastLine ==
    /\ ~command_echo_seen
    /\ SkipEcho(strip_ansi_codes(buffer), command, stdout).skip

\* the bytes received when the command returned hold a completion pattern
ReturnedAtPrompt ==
    op = "exec" /\ pc = "idle" /\ result.kind = "output" =>
        \/ Contains(strip_ansi_codes(Received), EffectivePrompt)
        \/ Contains(strip_ansi_codes(Received), <<"$", SP>>)
        \/ Contains(strip_ansi_codes(Received), <<"#", SP>>)

\* C32: the output-extraction loop tests the whole stripped buffer after
\* each update and stops at the first read after which the buffer contains
\* the configured shell prompt, "$ " or "# " anywhere: the loop never goes
\* on with such a buffer, and it returns only with one.
C32_StopsAtFirstPrompt ==
    /\ pc = "read_output" => ~BufferHasPrompt
    /\ ReturnedAtPrompt

\* C32 (amended): the loop stops at the first read after which the stripped
\* buffer contains the configured shell prompt, "$ " or "# " anywhere,
\* except that a read at which the echo search finds the command in the
\* last line received goes on without the completion test.
C32_StopsAtFirstPromptAfterEcho ==
    /\ pc = "read_output" /\ BufferHasPrompt => EchoInLastLine
    /\ ReturnedAtPrompt

\* a command returned at a prompt that is not at the end of what was read
C32_Witness ==
    /\ op = "exec"
    /\ pc = "idle"
    /\ result.kind = "output"
    /\ reads >= 2
    /\ Contains(strip_ansi_codes(Received), <<"$", SP>>)
    /\ ~EndsWith(strip_ansi_codes(Received), <<"$", SP>>)
    /\ ~EndsWith(strip_ansi_codes(Received), EffectivePrompt)

(***************************************************************************)
(* Properties of the prompt removal                                        *)
(***************************************************************************)
\* the places (1-based) where pat occurs in s
Occurrences(s, pat) ==
    {i \in 1..(Len(s) - Len(pat) + 1) : MatchesAt(s, pat, i)}

\* the first of "$ ", "# " and the configured prompt that occurs in s
\* (<<>> when none does)
FirstPatternIn(s) ==
    IF Occurrences(s, <<"$", SP>>) # {} THEN <<"$", SP>>
    ELSE IF Occurrences(s, <<"#", SP>>) # {} THEN <<"#", SP>>
    ELSE IF Occurrences(s, EffectivePrompt) # {} THEN EffectivePrompt
    ELSE <<>>

\* s without the first occurrence of its first pattern
WithoutFirstOccurrence(s) ==
    LET pat == FirstPatternIn(s)
    IN  IF pat = <<>> THEN s
        ELSE LET i == CHOOSE k \in Occurrences(s, pat) :
                          \A j \in Occurrences(s, pat) : k <= j
             IN  SubSeq(s, 1, i - 1) \o SubSeq(s, i + Len(pat), Len(s))

\* s up to the last occurrence of its first pattern
UpToLastOccurrence(s) ==
    LET pat == FirstPatternIn(s)
    IN  IF pat = <<>> THEN s
        ELSE LET i == CHOOSE k \in Occurrences(s, pat) :
                          \A j \in Occurrences(s, pat) : j <= k
             IN  SubSeq(s, 1, i - 1)

\* C33: when completion is detected, the first occurrence of the first
\* pattern found in the working stdout ("$ ", then "# ", then the configured
\* prompt) is removed, the rest of the working stdout is kept, and the
\* result is trimmed before it is returned.
C33_FirstOccurrenceRemoved ==
    op = "remove_prompt" =>
        stripped_text = Trim(WithoutFirstOccurrence(raw_text))

\* C33 (amended): when completion is detected, the working stdout is cut at
\* the last occurrence of the first pattern found in it ("$ ", then "# ",
\* then the configured prompt): that occurrence and all that follows it are
\* dropped, what precedes it is kept, and the result is trimmed before it is
\* returned.
C33_CutAtLastOccurrence ==
    op = "remove_prompt" =>
        stripped_text = Trim(UpToLastOccurrence(raw_text))

\* a working stdout with an earlier "$ " in its output has been cut at its
\* final prompt
C33_Witness ==
    /\ op = "remove_prompt"
    /\ raw_text = <<"$", SP, "h", "$", SP>>
    /\ stripped_text = <<"$", SP, "h">>

(***************************************************************************)
(* Properties of a command on the Windows serial channel                   *)
(***************************************************************************)
\* the read_response call of the command ran into its timeout
WinTimedOut ==
    /\ waits # <<>>
    /\ LastWait[1] = "exec"
    /\ LastWait[2] \in {"partial", "Timeout: no response received"}

\* C34: on WindowsSerialChannel a command whose terminating prompt has not
\* arrived when the timeout elapses fails with a command-execution timeout
\* error, also when some bytes were received; no CommandOutput is built
\* from a partial response.
C34_WinTimeoutIsError ==
    transport = "windows" /\ op = "exec" /\ pc = "idle" /\ WinTimedOut =>
        /\ result.kind = "error"
        /\ result.error = "CommandExecution"

(***************************************************************************)
(* Properties of the steps of an SSH command                               *)
(***************************************************************************)
\* the order of the steps as claimed
ClaimedExecOrder ==
    <<"channel_session", "exec", "read_to_string",
      "stderr().read_to_string", "wait_close", "exit_status">>

\* the library call `name` was made by the call in progress and returned
\* `outcome`
Made(name, outcome) == Call(name, "", outcome) \in Range(ssh_log)

\* C35: every SshChannel command opens a fresh exec channel and then execs
\* the command, reads stdout to its end, reads stderr to its end, waits for
\* the channel to close and reads the exit status, in that order; the exit
\* status is never read before the channel has closed, the CommandOutput
\* returned carries exactly these three values, and a step that fails makes
\* the call return a CommandExecution error with no later step made.
C35_ExecStepsInOrder ==
    (transport = "ssh" /\ CommandRan) =>
        /\ Len(ssh_log) <= Len(ClaimedExecOrder)
        /\ \A i \in 1..Len(ssh_log) :
              /\ ssh_log[i][1] = ClaimedExecOrder[i]
              /\ (i < Len(ssh_log) => ssh_log[i][3] = "ok")
        /\ (\E o \in {"ok", "err"} : Made("exit_status", o))
              => Made("wait_close", "ok")
        /\ IF result.ok
           THEN /\ Len(ssh_log) = Len(ClaimedExecOrder)
                /\ ssh_log[Len(ssh_log)][3] = "ok"
                /\ result.kind = "output"
                /\ result.stdout = remote.stdout
                /\ result.stderr = remote.stderr
                /\ result.exit_code = remote.exit_code
           ELSE /\ ssh_log[Len(ssh_log)][3] = "err"
                /\ result.kind = "error"
                /\ result.error = "CommandExecution"
                /\ result.msg = ssh_log[Len(ssh_log)][1]

\* a command whose wait for the close failed: it returned that error and
\* did not read the exit status
C35_Witness ==
    /\ transport = "ssh"
    /\ CommandRan
    /\ result = Err("CommandExecution", "wait_close")
    /\ Len(ssh_log) = 5
    /\ ssh_log[5] = Call("wait_close", "", "err")

(***************************************************************************)
(* Properties of the fields of the serial channel                          *)
(***************************************************************************)
\* C36: in every reachable state of a SerialChannel, connected is true if
\* and only if a port handle is held, and logged_in implies connected,
\* whatever connect, execute, upload, download and disconnect calls were
\* made and however they ended.
C36_FieldsConsistent ==
    transport = "serial" =>
        /\ connected <=> port
        /\ logged_in => connected

\* a connect() that failed in the login: the port is held and connected is
\* set, logged_in is not
C36_Witness ==
    /\ transport = "serial"
    /\ op = "connect"
    /\ pc = "idle"
    /\ ~result.ok
    /\ connected
    /\ port
    /\ ~logged_in

(***************************************************************************)
(* Termination of connect                                                  *)
(***************************************************************************)
\* connect() has opened the port and is in its login automation
ConnectRunning == op = "connect" /\ pc # "idle"

\* C37: SerialChannel::connect() always terminates once the port is open:
\* whatever the target sends, and when it sends nothing, connect returns Ok
\* or Err after finitely many steps, every prompt wait of the login
\* automation being bounded by its own timeout.
C37_ConnectTerminates ==
    ConnectRunning ~> (op = "connect" /\ pc = "idle" /\ result.kind # "none")

\* connect() returned after the target said nothing and the login-prompt
\* wait ran into its timeout
C37_Witness ==
    /\ op = "connect"
    /\ pc = "idle"
    /\ result = OkUnit
    /\ spoken = 0
    /\ Waited("wait_login", "timeout")

(***************************************************************************)
(* Properties of the authentication of the SSH client                      *)
(***************************************************************************)
\* C38: SshClient::connect follows the authentication precedence of
\* SshChannel::connect: with a key path configured, when the authentication
\* with that key fails no default key location is tried before the
\* password: every key attempt of the connect is made with the configured
\* key.
C38_ClientConfiguredKeyOnly ==
    (transport = "ssh_client" /\ op = "connect" /\ ssh_key_path # None) =>
        \A i \in 1..Len(KeyAttempts) :
            KeyAttempts[i][2] = Unwrap(ssh_key_path)


(***************************************************************************)
(* Properties of install_public_key                                        *)
(***************************************************************************)
\* install_public_key has returned
InstallReturned ==
    op = "install_public_key" /\ pc = "idle" /\ result.kind # "none"

\* the append to authorized_keys ran and ended with `status` on the target
AppendEnded(status) ==
    \E i \in 1..Len(key_install) :
        /\ key_install[i].command = "append"
        /\ key_install[i].status = status

\* C39: on every channel install_public_key returns an error whenever the
\* append of the public key to authorized_keys failed on the target, and it
\* returns Ok only if the append succeeded there
C39_AppendFailureIsError ==
    InstallReturned =>
        /\ AppendEnded(1) => ~result.ok
        /\ result.ok => AppendEnded(0)

====
